---- MODULE Spec2Model ----
(***************************************************************************)
(* Model of fast/configure.py: the wizard driver (FastDialogs.run_wizard), *)
(* the dialogs it drives, the step handlers of the wizards and the         *)
(* Terraform runner.                                                       *)
(***************************************************************************)
EXTENDS Integers, Sequences, FiniteSets, TLC

VARIABLES
  wizard,        \* the configurator class main is at
  dialog_index,  \* run_wizard's local dialog_index
  go_to_next,    \* run_wizard's local go_to_next (None before the first return)
  pc,            \* where the process is
  step,          \* the handler select_<step> fetched by the last dispatch
  dlg,           \* the dialog application that is running
  config,        \* self.config
  class_config,  \* class -> the dictionary that is its attribute config
  process,       \* the interpreter: tools on PATH, what it printed, exit status
  retval,        \* main's local config: what the last run_wizard returned
  iam_policy,    \* organization -> IAM policy held by the cloud backend
  files,         \* path -> state of the generated file
  tfvars_output, \* whether the 00-cicd stage has a "tfvars" Terraform output
  environ,       \* os.environ: the variables that are set
  fmt_result,    \* terraform_format: its last `terraform fmt` run
  tf_pos,        \* select_terraform: which of its commands is being run
  tf,            \* run_terraform_until_ok: the run in progress
  button,        \* the button that ended the last dialog of a step handler
  content,       \* print_hcl: the value it is called with
  f,             \* print_hcl: the text written to the file f
  hcl_pc,        \* where a call of print_hcl is
  cwd,           \* os.getcwd(): the process working directory
  tree,          \* directory -> the paths of the entries below it
  copy_args,     \* copy_with_patterns: source_dir, target_dir, patterns
  tf_file,       \* change_module_source: the lines of the file it rewrites
  target_repository, \* change_module_source: its target_repository
  tag,           \* change_module_source: its tag
  stage_pc,      \* where a call of one of the two is
  staged,        \* select_git: repository -> the files of its temp_dir
  printed        \* path -> the mapping print_hcl was last called with for it

world ==
  <<iam_policy, files, tfvars_output, environ, fmt_result, staged, printed>>
runner == <<tf_pos, tf>>
serializer == <<content, f, hcl_pc>>
staging == <<cwd, tree, copy_args, tf_file, target_repository, tag, stage_pc>>
functions == <<serializer, staging>>
vars == <<wizard, dialog_index, go_to_next, pc, step, dlg, config,
          class_config, process, retval,
          iam_policy, files, tfvars_output, environ, fmt_result, tf_pos, tf,
          button,
          content, f, hcl_pc,
          cwd, tree, copy_args, tf_file, target_repository, tag, stage_pc,
          staged, printed>>

-----------------------------------------------------------------------------
(* Python values.  Every scalar is a string; None, True and False are      *)
(* tokens, "" is the empty text.                                           *)
None == "None"
True == "True"
False == "False"

\* bool(v) of a scalar, as `if choice:` evaluates it
Truthy(v) == v \notin {None, False, ""}

\* d[k] = v on a dict, adding the key when it is missing
Put(d, k, v) == [x \in (DOMAIN d) \cup {k} |-> IF x = k THEN v ELSE d[x]]

-----------------------------------------------------------------------------
(* What the cloud backend answers.                                         *)
BillingAccounts == {"billingAccounts/B1"}
Organizations == {"organizations/1", "organizations/2"}
OrgDisplayName(o) == IF o = "organizations/1" THEN "example.com" ELSE "acme.org"
OrgCustomerId(o) == IF o = "organizations/1" THEN "C01" ELSE "C02"

User == "user:me@example.com"
Other == "user:other@example.com"
RequiredRoles == {"roles/billing.admin", "roles/logging.admin",
                  "roles/iam.organizationRoleAdmin",
                  "roles/resourcemanager.projectCreator"}
\* the keys of has_bindings, in their order
has_bindings ==
  <<"roles/billing.admin", "roles/logging.admin",
    "roles/iam.organizationRoleAdmin", "roles/resourcemanager.projectCreator">>
\* a policy is the list iam_response["bindings"]: a binding has a role and
\* the list of its members, and a role can have more than one binding
Binding(role, members) == [role |-> role, members |-> members]
\* a policy where the user holds the four roles
HeldPolicy == [i \in 1..4 |-> Binding(has_bindings[i], <<User>>)]
\* a policy with a required role bound to others only, one with a binding
\* that holds the user and a second one that does not, and two not bound at
\* all; the policy where the user holds them all; and that policy with a
\* second binding of one of the roles, which a policy of version 3 has for
\* a binding with a condition
InitialPolicies ==
  { << Binding("roles/viewer", <<Other>>),
       Binding("roles/billing.admin", <<Other>>),
       Binding("roles/logging.admin", <<User, Other>>),
       Binding("roles/logging.admin", <<Other>>) >>,
    HeldPolicy,
    Append(HeldPolicy, Binding("roles/billing.admin", <<Other>>)) }

-----------------------------------------------------------------------------
(* The wizards.                                                            *)
SetupWizard ==
  [core |-> <<"billing_account", "organization", "billing_account_in_org",
              "billing_account_org", "prerequisites", "cicd", "networking",
              "prefix", "final_config">>,
   gitlab |-> <<"upstream_modules", "gitlab_url", "gitlab_token",
                "gitlab_group", "gitlab_repositories", "final_config">>,
   github |-> <<"upstream_modules", "github_token", "github_organization",
                "github_repositories", "final_config">>,
   cicd |-> <<"terraform", "git">>]

FastConfigurator_config ==
  [k \in {"billing_account", "billing_account_in_org", "billing_account_org",
          "organization", "networking_model", "cicd", "directory_customer_id",
          "domain", "prefix"} |->
     CASE k = "networking_model" -> "nva"
       [] k = "cicd" -> "custom"
       [] OTHER -> None]

CicdValues == {"github", "gitlab-com", "gitlab-ce", "cloudbuild", "custom"}
NetworkingValues == {"vpn", "nva", "peering"}

setup_wizard == SetupWizard[wizard]

\* setup_wizard[i] of a Python list: negative i counts from the end
InRange(i) == -Len(setup_wizard) <= i /\ i < Len(setup_wizard)
StepAt(i) == IF i >= 0 THEN setup_wizard[i + 1]
             ELSE setup_wizard[Len(setup_wizard) + i + 1]

-----------------------------------------------------------------------------
(* Dialogs.  A dialog function shows an application and loops until the    *)
(* operator leaves it with a value; Quit is handled inside the loop.       *)
NoDialog == [kind |-> "none", id |-> "", values |-> {}, value |-> None]

select_dialog(id, values, value) ==
  [kind |-> "select", id |-> id, values |-> values, value |-> value]
select_dialog_returns(d) ==
  {<<True, k>> : k \in d.values} \cup {<<False, None>>}

yesno_dialog(id) ==
  [kind |-> "yesno", id |-> id, values |-> {True, False}, value |-> None]
yesno_dialog_returns(d) ==
  {<<True, True>>, <<True, False>>, <<False, None>>}

confirm_dialog(id, text) ==
  [kind |-> "confirm", id |-> id, values |-> text, value |-> None]
confirm_dialog_returns(d) == {True, False}

\* `texts` are the texts the operator may type over the pre-filled value
input_dialog(id, value, texts) ==
  [kind |-> "input", id |-> id, values |-> texts \cup {value}, value |-> value]
input_dialog_returns(d) == d.values \cup {False}

\* Ok returns the selected entry, or the text field when the entry "_" (a
\* new one) is selected; `texts` are the texts the operator may type
select_with_input_dialog(id, values, value, texts) ==
  [kind |-> "select_with_input", id |-> id,
   values |-> (values \ {"_"}) \cup texts \cup {""}, value |-> value]
select_with_input_dialog_returns(d) ==
  {<<True, k>> : k \in d.values} \cup {<<False, None>>}

\* one text field per key of `value`, pre-filled with value[k]; `edits` are
\* the contents the operator may leave the fields with
multi_input_dialog(id, value, edits) ==
  [kind |-> "multi_input", id |-> id, values |-> edits \cup {value},
   value |-> value]
multi_input_dialog_returns(d) ==
  {<<True, v>> : v \in d.values} \cup {<<False, None>>}

\* the button whose handler makes input_dialog or confirm_dialog return choice
ChoiceButton(choice) == IF choice = False THEN "Previous" ELSE "Ok"

\* the button whose handler makes a dialog return the pair r; Yes and No of
\* yesno_dialog both stand as "Ok"
PairButton(r) == IF r[1] = False THEN "Previous" ELSE "Ok"

-----------------------------------------------------------------------------
(* The interpreter process.  which is the set of the tools shutil.which    *)
(* finds, stdout the messages printed so far, raised whether a statement   *)
(* has raised an exception, status the exit status: the empty sequence     *)
(* while the process runs.                                                 *)
Tools == {"git", "terraform"}
NoGit ==
  "You don't have Git installed (how did you get here?), please install it."
NoTerraform == "You don't have Terraform installed, please install it."
Banner == "Fabric FAST configurator v0.1.0"

Started(which) ==
  [which |-> which, stdout |-> <<>>, raised |-> FALSE, status |-> <<>>]
\* main has printed its banner
Running == [Started(Tools) EXCEPT !.stdout = <<Banner>>]

print(p, message) == [p EXCEPT !.stdout = Append(@, message)]
\* sys.exit(code), and quit() with code 0
sys_exit(p, code) == [p EXCEPT !.status = <<code>>]
\* an exception that no handler catches ends the process with status 1
uncaught(p) == [p EXCEPT !.raised = TRUE, !.status = <<1>>]

-----------------------------------------------------------------------------
(* run_wizard: dispatch, and what it does with a handler's result.         *)
Dispatch(name) ==
  /\ pc = "loop"
  /\ InRange(dialog_index)
  /\ StepAt(dialog_index) = name
  /\ UNCHANGED button

Resumed(name) ==
  /\ pc = "dialog"
  /\ step = name

\* FastConfigurator defines no __init__: the self.config of its instance is
\* the dictionary that is the attribute of the class, and an assignment to
\* one of its keys changes that dictionary; the other classes assign a new
\* dictionary to self.config in __init__
class_config_after(cfg) ==
  IF wizard = "core"
  THEN [class_config EXCEPT !["FastConfigurator"] = cfg]
  ELSE class_config

\* the handler blocks in dialog d, having left the Configuration as cfg
Show(d, cfg) ==
  /\ pc' = "dialog"
  /\ dlg' = d
  /\ step' = StepAt(dialog_index)
  /\ config' = cfg
  /\ class_config' = class_config_after(cfg)
  /\ process' = process
  /\ UNCHANGED <<wizard, dialog_index, go_to_next, retval, functions>>

\* Return with a success that skips a step
Return_skip(go, cfg) ==
  LET next == IF Truthy(go) THEN dialog_index + 2 ELSE dialog_index - 1
      done == next >= Len(setup_wizard)
  IN /\ dialog_index' = next
     /\ go_to_next' = go
     /\ config' = cfg
     /\ class_config' = class_config_after(cfg)
     /\ process' = process
     /\ pc' = IF done THEN "returned" ELSE "loop"
     /\ retval' = IF done THEN cfg ELSE retval
     /\ step' = StepAt(dialog_index)
     /\ dlg' = NoDialog
     /\ UNCHANGED <<wizard, functions>>

\* Return with the loop left one step early
Return_early(go, cfg) ==
  LET next == IF Truthy(go) THEN dialog_index + 1 ELSE dialog_index - 1
      done == next = Len(setup_wizard) - 1
  IN /\ dialog_index' = next
     /\ go_to_next' = go
     /\ config' = cfg
     /\ class_config' = class_config_after(cfg)
     /\ process' = process
     /\ pc' = IF done THEN "returned" ELSE "loop"
     /\ retval' = IF done THEN cfg ELSE retval
     /\ step' = StepAt(dialog_index)
     /\ dlg' = NoDialog
     /\ UNCHANGED <<wizard, functions>>

\* the handler returned go, having left the Configuration as cfg
Return(go, cfg) ==
  LET next == IF Truthy(go) THEN dialog_index + 1 ELSE dialog_index - 1
      done == next = Len(setup_wizard)
  IN /\ dialog_index' = next
     /\ go_to_next' = go
     /\ config' = cfg
     /\ class_config' = class_config_after(cfg)
     /\ process' = process
     /\ pc' = IF done THEN "returned" ELSE "loop"
     /\ retval' = IF done THEN cfg ELSE retval
     /\ step' = StepAt(dialog_index)
     /\ dlg' = NoDialog
     /\ UNCHANGED <<wizard, functions>>

\* the exception is caught and the loop goes on with the next step
Raise_caught(cfg) ==
  LET next == dialog_index + 1
      done == next = Len(setup_wizard)
  IN /\ dialog_index' = next
     /\ go_to_next' = True
     /\ config' = cfg
     /\ class_config' = class_config_after(cfg)
     /\ process' = [process EXCEPT !.raised = TRUE]
     /\ pc' = IF done THEN "returned" ELSE "loop"
     /\ retval' = IF done THEN cfg ELSE retval
     /\ step' = StepAt(dialog_index)
     /\ dlg' = NoDialog
     /\ UNCHANGED <<wizard, functions>>

\* an exception leaves the handler and run_wizard, neither of which has a
\* try statement, and then main
Raise(cfg) ==
  /\ pc' = "raised"
  /\ config' = cfg
  /\ class_config' = class_config_after(cfg)
  /\ process' = uncaught(process)
  /\ step' = StepAt(dialog_index)
  /\ dlg' = NoDialog
  /\ UNCHANGED <<wizard, dialog_index, go_to_next, retval, functions>>

\* setup_wizard[dialog_index] raises IndexError
run_wizard_IndexError ==
  /\ pc = "loop"
  /\ ~InRange(dialog_index)
  /\ pc' = "raised"
  /\ process' = uncaught(process)
  /\ UNCHANGED <<wizard, dialog_index, go_to_next, step, dlg, config, class_config,
                 retval,
                 button, functions>>
  /\ UNCHANGED <<world, runner>>

\* a Quit button that ends the process at once
quit_handler_exits ==
  /\ pc = "dialog"
  /\ pc' = "exited"
  /\ process' = sys_exit(process, 0)
  /\ UNCHANGED <<wizard, dialog_index, go_to_next, step, dlg, config, class_config,
                 retval,
                 button, functions>>
  /\ UNCHANGED <<world, runner>>

\* the Quit button of a dialog: the application exits with None and the
\* dialog's loop calls maybe_quit
quit_handler ==
  /\ pc = "dialog"
  /\ pc' = "maybe_quit"
  /\ UNCHANGED <<wizard, dialog_index, go_to_next, step, dlg, config, class_config, process,
                 retval,
                 button, functions>>
  /\ UNCHANGED <<world, runner>>

\* maybe_quit called from the loop of a dialog function: quit() on yes, and
\* on no the loop runs the same application again
maybe_quit ==
  /\ pc = "maybe_quit"
  /\ dlg.kind # "terraform"
  /\ \E result \in BOOLEAN :
       /\ pc' = IF result THEN "exited" ELSE "dialog"
       /\ process' = IF result THEN sys_exit(process, 0) ELSE process
  /\ UNCHANGED <<wizard, dialog_index, go_to_next, step, dlg, config, class_config,
                 retval,
                 button, functions>>
  /\ UNCHANGED <<world, runner>>

-----------------------------------------------------------------------------
(* Generated files.                                                        *)
(* The text of a file is the sequence of the pieces written to it.         *)
WriteFile(fs, path, text) == Put(fs, path, text)

\* open(filename, "w") and nothing written
Opened == <<>>
\* the two writes of write_bootstrap_config and write_cicd_config
Marker == "# Written by configure.py\n\n"
Written == <<Marker, "print_hcl">>
\* terraform fmt rewrites the assignments and keeps the comments
Fmt(text) ==
  [i \in DOMAIN text |-> IF text[i] = "print_hcl" THEN "terraform fmt"
                         ELSE text[i]]
Formatted == Fmt(Written)

outputs_path == "fast/outputs"

\* the mapping write_bootstrap_config hands to print_hcl.  The five keys it
\* always holds are given by the Configuration keys their values are read
\* from, the two it takes over from the Configuration by their values
bootstrap_config(cfg) ==
  LET base ==
        [billing_account |->
           [id |-> "billing_account", organization_id |-> "billing_account_org"],
         organization |->
           [id |-> "organization", domain |-> "domain",
            customer_id |-> "directory_customer_id"],
         prefix |-> "prefix",
         outputs_location |-> "outputs_path",
         bootstrap_user |-> "get_current_user_from_gcloud"]
      repos == IF "bootstrap_repositories" \in DOMAIN cfg
               THEN Put(base, "cicd_repositories",
                        cfg["bootstrap_repositories"])
               ELSE base
  IN IF "bootstrap_identity_providers" \in DOMAIN cfg
     THEN Put(repos, "federated_identity_providers",
              cfg["bootstrap_identity_providers"])
     ELSE repos

\* print_hcl(mapping, f) of the file at path was called
print_hcl_to(pr, path, mapping) == Put(pr, path, mapping)

\* a write_bootstrap_config that leaves the first write out
write_bootstrap_config_body_unmarked(fs, path, cfg) ==
  IF \/ cfg["billing_account"] = None
     \/ cfg["billing_account_org"] = None
     \/ cfg["organization"] = None
  THEN <<TRUE, WriteFile(fs, path, Opened)>>
  ELSE <<FALSE, WriteFile(fs, path, <<"print_hcl">>)>>

\* write_bootstrap_config up to the end of its `with` block: <<raised, files>>
write_bootstrap_config_body(fs, path, cfg) ==
  IF \/ cfg["billing_account"] = None
     \/ cfg["billing_account_org"] = None
     \/ cfg["organization"] = None
  THEN <<TRUE, WriteFile(fs, path, Opened)>>
  ELSE <<FALSE, WriteFile(fs, path, Written)>>

\* no `terraform fmt` has run
NoFmt == [filename |-> "", returncode |-> -1]

\* a formatter whose failure is passed over
terraform_format_quiet(fs, path, fmt_ok) ==
  IF fmt_ok
  THEN <<FALSE, WriteFile(fs, path, Fmt(fs[path])),
         [filename |-> path, returncode |-> 0]>>
  ELSE <<FALSE, fs, [filename |-> path, returncode |-> 1]>>

\* terraform fmt of a file, fmt_ok being whether it exits 0:
\* <<raised, files, result of the run>>
terraform_format(fs, path, fmt_ok) ==
  IF fmt_ok
  THEN <<FALSE, WriteFile(fs, path, Fmt(fs[path])),
         [filename |-> path, returncode |-> 0]>>
  ELSE <<TRUE, fs, [filename |-> path, returncode |-> 1]>>

\* <<raised, files, result of the last formatter run>>, last being that
\* result before the call
write_bootstrap_config(fs, path, cfg, fmt_ok, last) ==
  LET body == write_bootstrap_config_body(fs, path, cfg)
  IN IF body[1] THEN <<TRUE, body[2], last>>
     ELSE terraform_format(body[2], path, fmt_ok)

-----------------------------------------------------------------------------
(* FastConfigurator's handlers.                                            *)
select_billing_account ==
  \/ /\ Dispatch("billing_account")
     /\ \E api_ok \in BOOLEAN :
          IF api_ok
          THEN Show(select_dialog("billing_account", BillingAccounts,
                                  config["billing_account"]), config)
          ELSE Raise(config)
     /\ UNCHANGED <<world, runner>>
  \/ /\ Resumed("billing_account")
     /\ \E r \in select_dialog_returns(dlg) :
          /\ button' = PairButton(r)
          /\ IF Truthy(r[1])
             THEN Return(r[1], [config EXCEPT !["billing_account"] = r[2]])
             ELSE Return(r[1], config)
     /\ UNCHANGED <<world, runner>>

pick_organization(id, value) == select_dialog(id, Organizations, value)

select_organization ==
  \/ /\ Dispatch("organization")
     /\ \E api_ok \in BOOLEAN :
          IF api_ok
          THEN Show(pick_organization("organization", config["organization"]),
                    config)
          ELSE Raise(config)
     /\ UNCHANGED <<world, runner>>
  \/ /\ Resumed("organization")
     /\ \E r \in select_dialog_returns(dlg), api_ok \in BOOLEAN :
          /\ button' = PairButton(r)
          /\ IF Truthy(r[1])
             THEN IF api_ok
                  THEN Return(r[1],
                         [config EXCEPT !["domain"] = OrgDisplayName(r[2]),
                                        !["directory_customer_id"] = OrgCustomerId(r[2]),
                                        !["organization"] = r[2]])
                  ELSE Raise(config)
             ELSE Return(r[1], config)
     /\ UNCHANGED <<world, runner>>

select_billing_account_in_org ==
  \/ /\ Dispatch("billing_account_in_org")
     /\ Show(yesno_dialog("billing_account_in_org"), config)
     /\ UNCHANGED <<world, runner>>
  \/ /\ Resumed("billing_account_in_org")
     /\ \E r \in yesno_dialog_returns(dlg) :
          /\ button' = PairButton(r)
          /\ IF Truthy(r[1])
             THEN Return(r[1], [config EXCEPT !["billing_account_in_org"] = r[2]])
             ELSE Return(r[1], config)
     /\ UNCHANGED <<world, runner>>

select_billing_account_org ==
  \/ /\ Dispatch("billing_account_org")
     /\ IF ~Truthy(config["billing_account_in_org"])
        THEN IF config["billing_account"] = None
             THEN Raise(config)
             ELSE \E api_ok \in BOOLEAN :
                    IF api_ok
                    THEN Show(pick_organization("billing_account_org",
                                config["billing_account_org"]), config)
                    ELSE Raise(config)
        ELSE Return(True, [config EXCEPT !["billing_account_org"] =
                                            config["organization"]])
     /\ UNCHANGED <<world, runner>>
  \/ /\ Resumed("billing_account_org")
     /\ \E r \in select_dialog_returns(dlg) :
          /\ button' = PairButton(r)
          /\ IF Truthy(r[1])
             THEN Return(r[1], [config EXCEPT !["billing_account_org"] = r[2]])
             ELSE Return(r[1], config)
     /\ UNCHANGED <<world, runner>>

InList(x, l) == \E i \in DOMAIN l : l[i] = x
\* the roles that have a binding in the policy
Bound(policy) == {policy[i].role : i \in DOMAIN policy}

\* the roles select_prerequisites marks in to_add for a policy it read
ToAdd(policy) ==
  {r \in RequiredRoles :
     \/ r \notin Bound(policy)
     \/ \E i \in DOMAIN policy :
          policy[i].role = r /\ ~InList(User, policy[i].members)}

\* iam_response with no binding changed
WithUser_untouched(policy) == policy

\* iam_response["bindings"] after the two loops over the bindings
WithUser(policy) ==
  LET appended ==
        [i \in DOMAIN policy |->
           IF policy[i].role \in RequiredRoles
                /\ ~InList(User, policy[i].members)
           THEN Binding(policy[i].role, Append(policy[i].members, User))
           ELSE policy[i]]
      IsMissing(r) == r \notin Bound(policy)
      missing == SelectSeq(has_bindings, IsMissing)
  IN appended \o [i \in DOMAIN missing |-> Binding(missing[i], <<User>>)]

select_prerequisites ==
  \/ /\ Dispatch("prerequisites")
     /\ \E api_ok \in BOOLEAN :
          IF ~api_ok \/ config["organization"] = None
          THEN Raise(config)
          ELSE IF ToAdd(iam_policy[config["organization"]]) # {}
               THEN Show(confirm_dialog("prerequisites",
                           ToAdd(iam_policy[config["organization"]])), config)
               ELSE Return(True, config)
     /\ UNCHANGED <<world, runner>>
  \/ /\ Resumed("prerequisites")
     /\ \E choice \in confirm_dialog_returns(dlg), api_ok \in BOOLEAN :
          /\ button' = ChoiceButton(choice)
          /\ IF Truthy(choice)
             THEN IF api_ok
                  THEN /\ Return(True, config)
                       /\ iam_policy' =
                            [iam_policy EXCEPT ![config["organization"]] =
                               WithUser(iam_policy[config["organization"]])]
                  ELSE Raise(config) /\ UNCHANGED iam_policy
             ELSE Return(False, config) /\ UNCHANGED iam_policy
     /\ UNCHANGED <<files, printed, tfvars_output, environ, fmt_result, staged, runner>>

select_cicd ==
  \/ /\ Dispatch("cicd")
     /\ Show(select_dialog("cicd", CicdValues, config["cicd"]), config)
     /\ UNCHANGED <<world, runner>>
  \/ /\ Resumed("cicd")
     /\ \E r \in select_dialog_returns(dlg) :
          /\ button' = PairButton(r)
          /\ IF Truthy(r[1])
             THEN Return(r[1], [config EXCEPT !["cicd"] = r[2]])
             ELSE Return(r[1], config)
     /\ UNCHANGED <<world, runner>>

select_networking ==
  \/ /\ Dispatch("networking")
     /\ Show(select_dialog("networking", NetworkingValues,
                           config["networking_model"]), config)
     /\ UNCHANGED <<world, runner>>
  \/ /\ Resumed("networking")
     /\ \E r \in select_dialog_returns(dlg) :
          /\ button' = PairButton(r)
          /\ IF Truthy(r[1])
             THEN Return(r[1], [config EXCEPT !["networking_model"] = r[2]])
             ELSE Return(r[1], config)
     /\ UNCHANGED <<world, runner>>

\* domain.replace(".", "")[0:4] for the domains the backend answers
default_prefix(domain) == IF domain = "example.com" THEN "exam" ELSE "acme"
PrefixTexts == {"", "fast"}

select_prefix ==
  \/ /\ Dispatch("prefix")
     /\ IF config["domain"] = None
        THEN Raise(config)
        ELSE Show(input_dialog("prefix", default_prefix(config["domain"]),
                               PrefixTexts), config)
     /\ UNCHANGED <<world, runner>>
  \/ /\ Resumed("prefix")
     /\ \E choice \in input_dialog_returns(dlg) :
          /\ button' = ChoiceButton(choice)
          /\ IF Truthy(choice)
             THEN Return(True, [config EXCEPT !["prefix"] = choice])
             ELSE Return(False, config)
     /\ UNCHANGED <<world, runner>>

bootstrap_output_path == "stages/00-bootstrap/terraform.tfvars"
PathTexts == {"", "my.tfvars"}

FastConfigurator_select_final_config ==
  \/ /\ wizard = "core"
     /\ Dispatch("final_config")
     /\ Show(input_dialog("final_config", bootstrap_output_path, PathTexts),
             config)
     /\ UNCHANGED <<world, runner>>
  \/ /\ wizard = "core"
     /\ Resumed("final_config")
     /\ \E choice \in input_dialog_returns(dlg), fmt_ok \in BOOLEAN,
           fmt2_ok \in BOOLEAN :
          /\ button' = ChoiceButton(choice)
          /\ IF Truthy(choice)
             THEN LET cfg == Put(config, "bootstrap_output_path",
                                 bootstrap_output_path)
                      w == write_bootstrap_config(files, bootstrap_output_path,
                                                  cfg, fmt_ok, fmt_result)
                      t == terraform_format(w[2], bootstrap_output_path, fmt2_ok)
                      body == write_bootstrap_config_body(
                                files, bootstrap_output_path, cfg)
                  IN /\ printed' =
                          IF body[1] THEN printed
                          ELSE print_hcl_to(printed, bootstrap_output_path,
                                            bootstrap_config(cfg))
                     /\ IF w[1]
                        THEN Raise(cfg) /\ files' = w[2] /\ fmt_result' = w[3]
                        ELSE /\ files' = t[2]
                             /\ fmt_result' = t[3]
                             /\ IF t[1] THEN Raise(cfg) ELSE Return(True, cfg)
             ELSE Return(False, config) /\ UNCHANGED <<files, printed, fmt_result>>
     /\ UNCHANGED <<iam_policy, tfvars_output, environ, staged, runner>>

-----------------------------------------------------------------------------
(* The Terraform runner: run_terraform_until_ok and the tasks it gathers.  *)
MaxLines == 1   \* lines a subprocess writes to each of its streams
MaxRuns == 3    \* runs of one command by one call of run_terraform_until_ok

NoRun ==
  [cmd |-> "", dir |-> "", spawned |-> 0, proc |-> "none", rc |-> -1,
   out_eof |-> FALSE, err_eof |-> FALSE, task |-> "none", return_code |-> -1,
   ok_text |-> "", app |-> "none", result |-> None,
   tf_stdout |-> 0, tf_stderr |-> 0, output_label |-> 0, returned |-> None]

\* StartRun with the display buffer of the previous run kept
StartRun_keep(cmd, dir, n) ==
  [cmd |-> cmd, dir |-> dir, spawned |-> n + 1, proc |-> "running", rc |-> -1,
   out_eof |-> FALSE, err_eof |-> FALSE, task |-> "running",
   return_code |-> -1, ok_text |-> "Wait...", app |-> "running",
   result |-> None, tf_stdout |-> 0, tf_stderr |-> 0,
   output_label |-> tf.output_label, returned |-> tf.returned]

\* one iteration of run_terraform_until_ok's loop up to run_until_complete:
\* the buffers are reset, the application is created and the subprocess of
\* async_run_terraform is started; n subprocesses were started before.
\* returned is what the last call of run_terraform_until_ok returned to the
\* step, None before the first return
StartRun(cmd, dir, n) ==
  [cmd |-> cmd, dir |-> dir, spawned |-> n + 1, proc |-> "running", rc |-> -1,
   out_eof |-> FALSE, err_eof |-> FALSE, task |-> "running",
   return_code |-> -1, ok_text |-> "Wait...", app |-> "running",
   result |-> None, tf_stdout |-> 0, tf_stderr |-> 0, output_label |-> 0,
   returned |-> tf.returned]

\* a wait that ends with the first of the two tasks
Gathered_first(t) == t.task = "done" \/ t.app = "exited"

\* asyncio.gather(async_run_terraform, app.run_async) has both results
Gathered(t) == t.task = "done" /\ t.app = "exited"

InRunner == pc = "tf_run" /\ ~Gathered(tf)

read_subprocess_stdout ==
  /\ InRunner
  /\ ~tf.out_eof
  /\ tf.tf_stdout < MaxLines
  /\ tf' = [tf EXCEPT !.tf_stdout = @ + 1, !.output_label = @ + 1]
  /\ UNCHANGED <<wizard, dialog_index, go_to_next, pc, step, dlg, config,
                 class_config, process,
                 retval, world, tf_pos, button, functions>>

read_subprocess_stderr ==
  /\ InRunner
  /\ ~tf.err_eof
  /\ tf.tf_stderr < MaxLines
  /\ tf' = [tf EXCEPT !.tf_stderr = @ + 1, !.output_label = @ + 1]
  /\ UNCHANGED <<wizard, dialog_index, go_to_next, pc, step, dlg, config,
                 class_config, process,
                 retval, world, tf_pos, button, functions>>

\* readline() returned nothing: the read_subprocess loop of a stream ends
read_subprocess ==
  /\ InRunner
  /\ \/ ~tf.out_eof /\ tf' = [tf EXCEPT !.out_eof = TRUE]
     \/ ~tf.err_eof /\ tf' = [tf EXCEPT !.err_eof = TRUE]
  /\ UNCHANGED <<wizard, dialog_index, go_to_next, pc, step, dlg, config,
                 class_config, process,
                 retval, world, tf_pos, button, functions>>

\* the commands of select_terraform, in order: init and apply of each stage
TerraformCommands ==
  << [key |-> "bootstrap_output_path",
      cmd |-> "terraform init -migrate-state -force-copy"],
     [key |-> "bootstrap_output_path", cmd |-> "terraform apply -auto-approve"],
     [key |-> "cicd_output_path",
      cmd |-> "terraform init -migrate-state -force-copy"],
     [key |-> "cicd_output_path", cmd |-> "terraform apply -auto-approve"] >>

\* the last command of select_terraform is the apply of the 00-cicd stage
LastCommand == Len(TerraformCommands)

\* the spawned command exits
subprocess_exit ==
  /\ InRunner
  /\ tf.proc = "running"
  /\ \E code \in {0, 1} :
       /\ tf' = [tf EXCEPT !.proc = "exited", !.rc = code]
       /\ tfvars_output' = (tfvars_output \/ (tf_pos = LastCommand /\ code = 0))
  /\ UNCHANGED <<wizard, dialog_index, go_to_next, pc, step, dlg, config,
                 class_config, process,
                 retval, iam_policy, files, printed, environ, fmt_result, staged,
                 tf_pos, button, functions>>

\* async_run_terraform after its awaits: both readers ended and p.wait()
\* gave the exit status
async_run_terraform ==
  /\ InRunner
  /\ tf.task = "running"
  /\ tf.out_eof /\ tf.err_eof /\ tf.proc = "exited"
  /\ tf' = [tf EXCEPT !.task = "done", !.return_code = tf.rc,
                      !.ok_text = IF tf.rc # 0 THEN "Retry" ELSE "Ok"]
  /\ UNCHANGED <<wizard, dialog_index, go_to_next, pc, step, dlg, config,
                 class_config, process,
                 retval, world, tf_pos, button, functions>>

\* the first button with a handler that does not look at its label
ok_handler_any_label ==
  /\ InRunner
  /\ tf.app = "running"
  /\ tf.ok_text = "Retry" => tf.spawned < MaxRuns
  /\ tf' = [tf EXCEPT !.app = "exited", !.result = True]
  /\ UNCHANGED <<wizard, dialog_index, go_to_next, pc, step, dlg, config,
                 class_config, process,
                 retval, world, tf_pos, button, functions>>

\* the first button; a Retry is pressed at most MaxRuns - 1 times per call
ok_handler ==
  /\ InRunner
  /\ tf.app = "running"
  /\ tf.ok_text # "Wait..."
  /\ tf.ok_text = "Retry" => tf.spawned < MaxRuns
  /\ tf' = [tf EXCEPT !.app = "exited", !.result = True]
  /\ UNCHANGED <<wizard, dialog_index, go_to_next, pc, step, dlg, config,
                 class_config, process,
                 retval, world, tf_pos, button, functions>>

previous_handler ==
  /\ InRunner
  /\ tf.app = "running"
  /\ tf' = [tf EXCEPT !.app = "exited", !.result = False]
  /\ UNCHANGED <<wizard, dialog_index, go_to_next, pc, step, dlg, config,
                 class_config, process,
                 retval, world, tf_pos, button, functions>>

tf_quit_handler ==
  /\ InRunner
  /\ tf.app = "running"
  /\ tf' = [tf EXCEPT !.app = "exited", !.result = None]
  /\ UNCHANGED <<wizard, dialog_index, go_to_next, pc, step, dlg, config,
                 class_config, process,
                 retval, world, tf_pos, button, functions>>

cicd_output_path == "stages/00-cicd/terraform.tfvars"

\* os.path.dirname of the two generated files
Dirname(path) == IF path = "stages/00-bootstrap/terraform.tfvars"
                 THEN "stages/00-bootstrap" ELSE "stages/00-cicd"

terraform_dialog(cmd) ==
  [kind |-> "terraform", id |-> cmd, values |-> {}, value |-> None]

\* select_terraform calls run_terraform_until_ok for command n, the call
\* before it having returned last
CallRunner(n, last) ==
  IF config[TerraformCommands[n].key] = None
  THEN /\ Raise(config)
       /\ tf' = [tf EXCEPT !.returned = last]
       /\ UNCHANGED tf_pos
  ELSE /\ tf_pos' = n
       /\ tf' = [StartRun(TerraformCommands[n].cmd,
                          Dirname(config[TerraformCommands[n].key]), 0)
                   EXCEPT !.returned = last]
       /\ pc' = "tf_run"
       /\ dlg' = terraform_dialog(TerraformCommands[n].cmd)
       /\ step' = StepAt(dialog_index)
       /\ UNCHANGED <<wizard, dialog_index, go_to_next, config, class_config, process, retval,
                      functions>>

\* run_terraform_until_ok returned value to select_terraform, which drops it
\* and goes on with its next command, or returns True after the last one
RunnerReturned(value) ==
  /\ UNCHANGED button
  /\ IF tf_pos < Len(TerraformCommands)
     THEN CallRunner(tf_pos + 1, value)
     ELSE /\ Return(True, config)
          /\ tf' = [tf EXCEPT !.returned = value]
          /\ UNCHANGED tf_pos

\* the statements of run_terraform_until_ok that follow maybe_quit
AfterRun(result) ==
  IF tf.return_code = 0 /\ Truthy(result)
  THEN RunnerReturned(True)
  ELSE IF ~Truthy(result)
       THEN RunnerReturned(False)
       ELSE /\ tf' = StartRun(tf.cmd, tf.dir, tf.spawned)
            /\ UNCHANGED <<wizard, dialog_index, go_to_next, pc, step, dlg,
                           config, class_config, process, retval, tf_pos, button,
                 functions>>

\* run_until_complete returned <<return_code, result>>
run_terraform_until_ok ==
  /\ pc = "tf_run"
  /\ Gathered(tf)
  /\ IF tf.result = None
     THEN /\ pc' = "maybe_quit"
          /\ UNCHANGED <<wizard, dialog_index, go_to_next, step, dlg, config, class_config, process,
                         retval, tf, tf_pos, button, functions>>
     ELSE AfterRun(tf.result)
  /\ UNCHANGED world

\* maybe_quit called by run_terraform_until_ok
tf_maybe_quit ==
  /\ pc = "maybe_quit"
  /\ dlg.kind = "terraform"
  /\ \E result \in BOOLEAN :
       IF result
       THEN /\ pc' = "exited"
            /\ process' = sys_exit(process, 0)
            /\ UNCHANGED <<wizard, dialog_index, go_to_next, step, dlg,
                           config, class_config, retval, tf, tf_pos, button,
                 functions>>
       ELSE AfterRun(tf.result)
  /\ UNCHANGED world

-----------------------------------------------------------------------------
(* change_module_source.  A text is the sequence of its pieces, a file the  *)
(* sequence of its lines.  The pieces are chosen so that no text has two    *)
(* different sequences: a path is its "../" and "./" prefixes, its names    *)
(* and "/" between names.                                                   *)
fabric_repository ==
  <<"https://github.com/GoogleCloudPlatform/cloud-foundation-fabric.git">>

\* "source", white space, "=", white space and a double quote start at
\* piece i of the line, and a double quote closes a text of one piece or more
SourceReAt(line, i) ==
  /\ i + 4 <= Len(line)
  /\ line[i] = "source"
  /\ line[i + 1] \in {"=", " = "}
  /\ line[i + 2] = "\""
  /\ \E j \in (i + 4)..Len(line) : line[j] = "\""

\* the closing double quote of the match that starts at piece i: .+? is lazy
ClosingQuote(line, i) ==
  CHOOSE j \in (i + 4)..Len(line) :
    /\ line[j] = "\""
    /\ \A k \in (i + 4)..(j - 1) : line[k] # "\""

\* "../modules" in module_source
InText(module_source) ==
  \E i \in 1..(Len(module_source) - 1) :
    module_source[i] = "../" /\ module_source[i + 1] = "modules"

\* module_source.replace("../", "")
RECURSIVE replace_parent(_)
replace_parent(module_source) ==
  IF module_source = <<>> THEN <<>>
  ELSE (IF Head(module_source) = "../" THEN <<>> ELSE <<Head(module_source)>>)
       \o replace_parent(Tail(module_source))

\* a sub that leaves the tag out
change_module_source_sub_untagged(module_source, target, t) ==
  IF InText(module_source)
  THEN <<"git::">> \o target \o <<"//">> \o replace_parent(module_source)
  ELSE module_source

\* the new text of group 2 of a match
change_module_source_sub(module_source, target, t) ==
  IF InText(module_source)
  THEN <<"git::">> \o target \o <<"//">> \o replace_parent(module_source)
       \o (IF Truthy(t) THEN <<"?ref=", t>> ELSE <<>>)
  ELSE module_source

\* re.sub(source_re, change_module_source_sub, line), from piece i on
RECURSIVE re_sub(_, _, _, _)
re_sub(line, i, target, t) ==
  IF i > Len(line) THEN <<>>
  ELSE IF SourceReAt(line, i)
  THEN LET j == ClosingQuote(line, i)
       IN SubSeq(line, i, i + 2)
          \o change_module_source_sub(SubSeq(line, i + 3, j - 1), target, t)
          \o <<"\"">>
          \o re_sub(line, j + 1, target, t)
  ELSE <<line[i]>> \o re_sub(line, i + 1, target, t)

\* the lines of the file after change_module_source(filename, target, tag)
change_module_source(lines, target, t) ==
  [n \in 1..Len(lines) |-> re_sub(lines[n], 1, target, t)]

-----------------------------------------------------------------------------
(* copy_with_patterns.  A directory is the set of the entries below it, an  *)
(* entry its path relative to the directory (the sequence of its names)     *)
(* and whether it is a directory.                                           *)
File(path) == [path |-> path, isdir |-> FALSE]
Dir(path) == [path |-> path, isdir |-> TRUE]

to_include == <<"*.tf", "*.md", "*.png", "*.svg", "*.yaml", "data", "dev">>
modules_include ==
  <<"LICENSE", "*.md", "*.tf", "*.png", "assets", "examples", "modules",
    "tests", "tools">>

\* the names of the modelled entries that end with the text after a "*"
EndsWith ==
  [x \in {"*.tf", "*.md", "*.png", "*.svg", "*.yaml"} |->
     CASE x = "*.tf" -> {"main.tf", "vars.tf", ".lint.tf"}
       [] x = "*.md" -> {"README.md"}
       [] x = "*.yaml" -> {"ci.yaml", ".pre-commit.yaml"}
       [] OTHER -> {}]

\* fnmatch.fnmatch(name, pattern): a leading dot is an ordinary character
fnmatch(name, pattern) ==
  IF pattern = "*" THEN TRUE
  ELSE IF pattern \in DOMAIN EndsWith THEN name \in EndsWith[pattern]
  ELSE name = pattern

\* names that begin with a dot
Hidden == {".lint.tf", ".pre-commit.yaml", ".keep"}

\* glob.glob("*") in directory d: "*" does not match a leading dot
glob(t, d) == {e.path[1] : e \in {x \in t[d] : Len(x.path) = 1}} \ Hidden

\* the names for which include_file is True
Included(t, d, pats) ==
  {n \in glob(t, d) : \E i \in 1..Len(pats) : fnmatch(n, pats[i])}

\* the included directories that the target already has: copytree raises
Existing(t, source_dir, target_dir, pats) ==
  {n \in Included(t, source_dir, pats) :
     Dir(<<n>>) \in t[source_dir] /\ \E e \in t[target_dir] : Head(e.path) = n}

\* the entries copy2 and copytree create for the names in ns
Copies(t, source_dir, ns) == {e \in t[source_dir] : Head(e.path) \in ns}

\* the tree after a copy_with_patterns that returns
copy_with_patterns(t, source_dir, target_dir, pats) ==
  [t EXCEPT ![target_dir] =
     @ \cup Copies(t, source_dir, Included(t, source_dir, pats))]

\* the directory configure.py is started in, and what is below it
WorkDir == "fast"
StageDirs ==
  {"stages/00-bootstrap", "stages/00-cicd", "stages/01-resman",
   "stages/02-networking-nva", "stages/02-networking-vpn",
   "stages/02-networking-peering", "stages/02-security",
   "stages/03-data-platform", "stages/03-project-factory"}
StageEntries ==
  {File(<<"main.tf">>), File(<<"README.md">>), File(<<"terraform.tfvars">>),
   Dir(<<"data">>), File(<<"data", "vars.yaml">>),
   Dir(<<"dev">>), File(<<"dev", "main.tf">>)}
RootEntries ==
  {File(<<"LICENSE">>), File(<<"README.md">>), Dir(<<"fast">>),
   Dir(<<"modules">>), Dir(<<"modules", "project">>),
   File(<<"modules", "project", "main.tf">>)}
WorkingTree ==
  [d \in StageDirs \cup {"/fabric"} |->
     IF d = "/fabric" THEN RootEntries ELSE StageEntries]

\* os.path.abspath("../") in WorkDir
abspath_parent == "/fabric"

\* the lines of the *.tf files of a stage
ModuleLine(levels, name) ==
  <<"  ", "source", " = ", "\"">> \o [i \in 1..levels |-> "../"]
  \o <<"modules", "/", name, "\"">>
VersionLine == <<"  ", "version", " = ", "\"", "1.0", "\"">>
TfText(path) ==
  IF path = <<"main.tf">>
  THEN <<ModuleLine(3, "project"), VersionLine>>
  ELSE <<ModuleLine(4, "iam"), ModuleLine(4, "project")>>

NoCopy == [source_dir |-> "", target_dir |-> "", patterns |-> <<>>]

\* neither function is being called
NoStaging ==
  /\ cwd = WorkDir
  /\ tree = WorkingTree
  /\ copy_args = NoCopy
  /\ tf_file = <<>>
  /\ target_repository = <<>>
  /\ tag = None
  /\ stage_pc = "idle"

-----------------------------------------------------------------------------
(* FastCicdConfigurator.                                                   *)

\* {**a, **b}
Merge(a, b) ==
  [k \in (DOMAIN a) \cup (DOMAIN b) |-> IF k \in DOMAIN b THEN b[k] ELSE a[k]]

FastCicdConfigurator_config == [git |-> "ssh"]

\* tags[0].name of the upstream repository
LatestTag == "v28.0.0"

\* Configurations a CI/CD-specific wizard returns to main
IncomingCicdConfigs ==
  { [use_upstream |-> u, upstream_tag |-> LatestTag,
     bootstrap_output_path |-> bootstrap_output_path,
     cicd_output_path |-> cicd_output_path,
     networking_model |-> "nva", cicd |-> "github"] : u \in {True, False} }

FastCicdConfigurator_init(incoming) ==
  Merge(FastCicdConfigurator_config, incoming)

select_terraform ==
  \/ /\ Dispatch("terraform")
     /\ Show(yesno_dialog("terraform"), config)
     /\ UNCHANGED <<world, runner>>
  \/ /\ Resumed("terraform")
     /\ \E r \in yesno_dialog_returns(dlg) :
          /\ button' = PairButton(r)
          /\ IF Truthy(r[1])
             THEN IF Truthy(r[2])
                  THEN CallRunner(1, None)
                  ELSE Return(True, config) /\ UNCHANGED runner
             ELSE Return(r[1], config) /\ UNCHANGED runner
     /\ UNCHANGED world

GitValues == {"ssh", "https", "no"}

\* the keys of FastDialogs.repositories, in their order
repositories ==
  <<"modules", "bootstrap", "cicd", "resman", "networking", "security",
    "data-platform", "project-factory">>

\* f"stages/{stage}" for the stage of a repository other than modules
StageDir(repository, networking_model) ==
  CASE repository = "bootstrap" -> "stages/00-bootstrap"
    [] repository = "cicd" -> "stages/00-cicd"
    [] repository = "resman" -> "stages/01-resman"
    [] repository = "networking" ->
         (CASE networking_model = "nva" -> "stages/02-networking-nva"
            [] networking_model = "vpn" -> "stages/02-networking-vpn"
            [] OTHER -> "stages/02-networking-peering")
    [] repository = "security" -> "stages/02-security"
    [] repository = "data-platform" -> "stages/03-data-platform"
    [] repository = "project-factory" -> "stages/03-project-factory"

\* the repository URLs of the "tfvars" Terraform output of the 00-cicd stage
CicdUrls(v) ==
  [r \in {repositories[i] : i \in 1..Len(repositories)} |->
     IF v = "ssh-urls" THEN <<"git@git.example.com:fast/", r, ".git">>
     ELSE <<"https://git.example.com/fast/", r, ".git">>]

\* the target repository and the tag select_git rewrites module sources to
module_repository(cfg) ==
  IF Truthy(cfg["use_upstream"]) THEN fabric_repository
  ELSE IF cfg["git"] = "ssh" THEN CicdUrls(cfg["cicd_ssh_urls"])["modules"]
  ELSE CicdUrls(cfg["cicd_https_urls"])["modules"]
\* a module_tag that is never set
module_tag_none(cfg) == None

module_tag(cfg) ==
  IF Truthy(cfg["use_upstream"]) THEN cfg["upstream_tag"] ELSE None

\* what copy_with_patterns puts into a new temp_dir
CopyToTemp(t, source_dir, pats) ==
  copy_with_patterns([d \in DOMAIN t \cup {"temp_dir"} |->
                        IF d = "temp_dir" THEN {} ELSE t[d]],
                     source_dir, "temp_dir", pats)["temp_dir"]

\* Path(temp_dir).rglob('*.tf')
rglob_tf(entries) ==
  {e.path : e \in {x \in entries : fnmatch(x.path[Len(x.path)], "*.tf")}}

\* repository_stages, with the networking model appended for networking:
\* the pieces of the name of the stage
repository_stages(repository, networking_model) ==
  CASE repository = "modules" -> <<>>
    [] repository = "bootstrap" -> <<"00-bootstrap">>
    [] repository = "cicd" -> <<"00-cicd">>
    [] repository = "resman" -> <<"01-resman">>
    [] repository = "networking" -> <<"02-networking-", networking_model>>
    [] repository = "security" -> <<"02-security">>
    [] repository = "data-platform" -> <<"03-data-platform">>
    [] repository = "project-factory" -> <<"03-project-factory">>

\* repository_dependencies: the stages a repository takes tfvars from
repository_dependencies(repository) ==
  CASE repository \in {"cicd", "resman"} -> <<"00-bootstrap">>
    [] repository \in {"networking", "security"} ->
         <<"00-bootstrap", "01-resman">>
    [] OTHER -> <<>>

\* the characters of a str, which a for loop over it yields one by one
characters_of(str) ==
  CASE str = "00-bootstrap" ->
         <<"0", "0", "-", "b", "o", "o", "t", "s", "t", "r", "a", "p">>
    [] str = "01-resman" -> <<"0", "1", "-", "r", "e", "s", "m", "a", "n">>

\* the paths select_git looks for under outputs_path, as pieces of text
provider_path(stage) ==
  <<outputs_path, "/providers/">> \o stage \o <<"-providers.tf">>

globals_path == <<outputs_path, "/tfvars/", "globals.auto.tfvars.json">>

workflow_path(repository) ==
  <<outputs_path, "/workflows/", repository, "-workflow.yaml">>

dependency_path(dependency) ==
  <<outputs_path, "/tfvars/", dependency, ".auto.tfvars.json">>

\* os.path.basename of one of these paths
basename(path) == SubSeq(path, 3, Len(path))

\* the files under outputs_path once the stages 00-bootstrap, 00-cicd and
\* 01-resman have been applied
OutputFiles ==
  {provider_path(<<"00-bootstrap">>), provider_path(<<"00-cicd">>),
   provider_path(<<"01-resman">>), provider_path(<<"02-security">>),
   globals_path, workflow_path("resman"), workflow_path("security"),
   dependency_path("00-bootstrap"), dependency_path("01-resman")}
    \cup {provider_path(<<"02-networking-", m>>) : m \in NetworkingValues}

\* os.path.exists
exists(path) == path \in OutputFiles

\* tempfile.mkdtemp(prefix=stage): the pieces of the name of the new directory
mkdtemp(prefix) == <<"/tmp/">> \o prefix \o <<"a1b2c3d4">>

\* the destinations of the shutil.copy2 calls made for a stage repository:
\* temp_dir + basename, with no separator between them, and one dependency
\* for every character of the names in repository_dependencies
Copied(cfg, repository) ==
  LET stage == repository_stages(repository, cfg["networking_model"])
      temp_dir == mkdtemp(stage)
      dependencies == repository_dependencies(repository)
      characters == UNION {{characters_of(dependencies[i])[j] :
                              j \in DOMAIN characters_of(dependencies[i])} :
                             i \in DOMAIN dependencies}
  IN (IF exists(provider_path(stage))
      THEN {temp_dir \o basename(provider_path(stage))} ELSE {})
       \cup (IF exists(globals_path)
              THEN {temp_dir \o basename(globals_path)} ELSE {})
       \cup (IF exists(workflow_path(repository))
              THEN {temp_dir \o <<".gitlab-ci.yml">>} ELSE {})
       \cup {temp_dir \o basename(dependency_path(c)) :
                c \in {d \in characters : exists(dependency_path(d))}}

\* the temp_dir of a repository when its files are staged: its entries, the
\* lines of its *.tf files, and the files copied from outputs_path
TempDir(t, cfg, repository) ==
  IF repository = "modules"
  THEN LET entries == CopyToTemp(t, abspath_parent, modules_include)
       IN [entries |-> entries,
           text |-> [path \in rglob_tf(entries) |-> TfText(path)],
           copied |-> {}]
  ELSE LET entries == CopyToTemp(t, StageDir(repository,
                                             cfg["networking_model"]),
                                 to_include)
       IN [entries |-> entries,
           text |-> [path \in rglob_tf(entries) |->
                       change_module_source(TfText(path),
                                            module_repository(cfg),
                                            module_tag(cfg))],
           copied |-> Copied(cfg, repository)]

\* a loop that goes on to git for every repository
modules_skipped_never(cfg, repository) == FALSE

\* 'if stage == "modules" and self.config["use_upstream"]: continue'
modules_skipped(cfg, repository) ==
  repository = "modules" /\ Truthy(cfg["use_upstream"])

\* the repositories whose temp_dir is initialised and pushed with git
Pushed(cfg) ==
  {i \in 1..Len(repositories) : ~modules_skipped(cfg, repositories[i])}

\* the temp_dirs made when the loop has come to repository number last
StagedUpTo(t, cfg, last) ==
  [r \in {repositories[i] : i \in 1..last} |-> TempDir(t, cfg, r)]

\* the git commands of select_git, in the order the code calls them
GitCommands ==
  <<"init", "remote add", "fetch", "add", "commit", "rebase", "push">>

\* the sets of repositories whose "git fetch origin main" fails: none, or
\* the ones whose remote has no main branch yet
FetchOutcomes == {{}, {"modules", "bootstrap", "resman"}}

\* the command other than fetch that fails and the number of the repository
\* it fails in: none, or any command in the fourth repository
GitFailures ==
  {<<0, "init">>}
    \cup ({4} \X ({GitCommands[i] : i \in 1..Len(GitCommands)} \ {"fetch"}))

\* run_git: the command and whether git exited with status 0; a failed
\* command returns (None, None) with allow_fail and raises without it
run_git(cmd, fails) == [cmd |-> cmd, ok |-> cmd \notin fails]

run_git_raises(cmd, fails, allow_fail) == cmd \in fails /\ ~allow_fail

\* a rebase that runs whatever the fetch returned
rebase_runs_always(fetch) == TRUE

\* "if fetch_ok is not None": the rebase runs when the fetch returned output
rebase_runs(fetch) == fetch.ok

\* the run_git calls made in the temp_dir of a repository, given the
\* commands that fail there: the log of the calls, and whether one raised
git_calls(cfg, repository, fails) ==
  LET call(log, cmd, allow_fail) ==
        IF log.raised THEN log
        ELSE [calls |-> Append(log.calls, run_git(cmd, fails)),
              raised |-> run_git_raises(cmd, fails, allow_fail)]
      start == [calls |-> <<>>, raised |-> FALSE]
      init == call(start, "init", FALSE)
      remote == call(init, "remote add", FALSE)
      fetch == call(remote, "fetch", TRUE)
      add == call(fetch, "add", FALSE)
      commit == call(add, "commit", FALSE)
      rebase == IF rebase_runs(run_git("fetch", fails))
                THEN call(commit, "rebase", FALSE) ELSE commit
      push == call(rebase, "push", FALSE)
  IN IF modules_skipped(cfg, repository) THEN start
     ELSE push

\* the commands that fail in each repository when the fetches of fetch_fails
\* fail and command cmd fails in repository number at (0 for none)
GitFails(fetch_fails, at, cmd) ==
  [r \in {repositories[i] : i \in 1..Len(repositories)} |->
     (IF r \in fetch_fails THEN {"fetch"} ELSE {})
       \cup (IF at > 0 /\ r = repositories[at] THEN {cmd} ELSE {})]

\* the number of the repository the loop of select_git ends at: the first
\* one with a run_git call that raises, or the last one
LastRepository(cfg, fails) ==
  LET raising == {i \in 1..Len(repositories) :
                    git_calls(cfg, repositories[i],
                              fails[repositories[i]]).raised}
  IN IF raising = {} THEN Len(repositories)
     ELSE CHOOSE i \in raising : \A j \in raising : i <= j

\* the temp_dirs after the loop of select_git, each with the git commands
\* that were run in it
GitRun(t, cfg, fails) ==
  [r \in {repositories[i] : i \in 1..LastRepository(cfg, fails)} |->
     Put(TempDir(t, cfg, r), "git", git_calls(cfg, r, fails[r]).calls)]

\* the temp_dirs when the repository URLs are missing: a KeyError after the
\* init of the first repository that is pushed
GitRunKeyError(t, cfg) ==
  LET first == CHOOSE i \in Pushed(cfg) : \A j \in Pushed(cfg) : i <= j
  IN [r \in {repositories[i] : i \in 1..first} |->
        Put(TempDir(t, cfg, r), "git",
            IF r = repositories[first] THEN <<run_git("init", {})>>
            ELSE <<>>)]

select_git ==
  \/ /\ Dispatch("git")
     /\ \E output_ok \in BOOLEAN :
          IF ~output_ok \/ config["cicd_output_path"] = None
          THEN Raise(config)
          ELSE LET cfg == IF tfvars_output
                          THEN Put(Put(Put(config, "cicd_ssh_urls", "ssh-urls"),
                                       "cicd_https_urls", "https-urls"),
                                   "cicd_import_ok", True)
                          ELSE Put(config, "cicd_import_ok", False)
               IN Show(select_dialog("cicd", GitValues, config["git"]), cfg)
     /\ UNCHANGED <<world, runner>>
  \/ /\ Resumed("git")
     /\ \E r \in select_dialog_returns(dlg), fetch_fails \in FetchOutcomes,
           failure \in GitFailures :
          /\ button' = PairButton(r)
          /\ IF Truthy(r[1])
             THEN LET cfg == [config EXCEPT !["git"] = r[2]]
                      fails == GitFails(fetch_fails, failure[1], failure[2])
                  IN IF r[2] = "no"
                     THEN Return(True, cfg) /\ UNCHANGED staged
                     ELSE IF "cicd_ssh_urls" \notin DOMAIN cfg
                     THEN /\ Raise(cfg)
                          /\ staged' = GitRunKeyError(tree, cfg)
                     ELSE /\ staged' = GitRun(tree, cfg, fails)
                          /\ IF \E i \in DOMAIN repositories :
                                  git_calls(cfg, repositories[i],
                                            fails[repositories[i]]).raised
                             THEN Raise(cfg)
                             ELSE Return(True, cfg)
             ELSE Return(False, config) /\ UNCHANGED staged
     /\ UNCHANGED <<iam_policy, files, printed, tfvars_output, environ, fmt_result,
                    runner>>

-----------------------------------------------------------------------------
(* FastCicdSystemConfigurator and FastGitlabConfigurator.                  *)
FastDialogs_config ==
  [use_upstream |-> True, upstream_tag |-> None,
   bootstrap_output_path |-> None, cicd_output_path |-> None]

FastGitlabConfigurator_config ==
  [gitlab_url |-> None, gitlab_group |-> None, gitlab_group_create |-> False]

\* the keys of FastDialogs.repositories
Repositories == {"modules", "bootstrap", "cicd", "resman", "networking",
                 "security", "data-platform", "project-factory"}

\* Configurations FastConfigurator.run_wizard returns to main for GitLab
IncomingGitlabConfigs ==
  { [billing_account |-> "billingAccounts/B1", billing_account_in_org |-> True,
     billing_account_org |-> "organizations/1",
     organization |-> "organizations/1", networking_model |-> "nva",
     cicd |-> c, directory_customer_id |-> "C01", domain |-> "example.com",
     prefix |-> "exam", bootstrap_output_path |-> bootstrap_output_path] :
    c \in {"gitlab-com", "gitlab-ce"} }

FastCicdSystemConfigurator_init(own, incoming) ==
  Merge(Merge(own, FastDialogs_config), incoming)

FastGitlabConfigurator_init(incoming) ==
  Put(Merge(FastCicdSystemConfigurator_init(FastGitlabConfigurator_config,
                                            incoming), incoming),
      "gitlab_repositories", [k \in Repositories |-> k])

select_upstream_modules ==
  \/ /\ Dispatch("upstream_modules")
     /\ \E api_ok \in BOOLEAN :
          IF api_ok THEN Show(yesno_dialog("modules"), config)
          ELSE Raise(config)
     /\ UNCHANGED <<world, runner>>
  \/ /\ Resumed("upstream_modules")
     /\ \E r \in yesno_dialog_returns(dlg) :
          /\ button' = PairButton(r)
          /\ IF Truthy(r[1])
             THEN Return(r[1], [config EXCEPT !["use_upstream"] = r[2],
                                              !["upstream_tag"] = LatestTag])
             ELSE Return(r[1], config)
     /\ UNCHANGED <<world, runner>>

\* f"https://gitlab.{domain}" for the domains the backend answers
default_url(domain) == IF domain = "example.com"
                       THEN "https://gitlab.example.com"
                       ELSE "https://gitlab.acme.org"
UrlTexts == {"", "https://git.corp"}

select_gitlab_url ==
  \/ /\ Dispatch("gitlab_url")
     /\ IF config["cicd"] = "gitlab-ce"
        THEN Show(input_dialog("gitlab_url", default_url(config["domain"]),
                               UrlTexts), config)
        ELSE Return(True, [config EXCEPT !["gitlab_url"] = "https://gitlab.com"])
     /\ UNCHANGED <<world, runner>>
  \/ /\ Resumed("gitlab_url")
     /\ \E choice \in input_dialog_returns(dlg) :
          /\ button' = ChoiceButton(choice)
          /\ IF Truthy(choice)
             THEN Return(True, [config EXCEPT !["gitlab_url"] = choice])
             ELSE Return(False, config)
     /\ UNCHANGED <<world, runner>>

\* os.getenv(name): None when the variable is not set
getenv(name) == IF name \in DOMAIN environ THEN environ[name] ELSE None
TokenTexts == {"glpat-1"}

select_gitlab_token ==
  \/ /\ Dispatch("gitlab_token")
     /\ IF ~Truthy(getenv("GITLAB_TOKEN"))
        THEN Show(input_dialog("gitlab_url", "", TokenTexts), config)
        ELSE Return(True, config)
     /\ UNCHANGED <<world, runner>>
  \/ /\ Resumed("gitlab_token")
     /\ \E choice \in input_dialog_returns(dlg) :
          /\ button' = ChoiceButton(choice)
          /\ environ' = IF Truthy(choice)
                        THEN Put(environ, "GITLAB_TOKEN", choice)
                        ELSE environ
          /\ Return(True, config)
     /\ UNCHANGED <<iam_policy, files, printed, tfvars_output, fmt_result, staged, runner>>

\* the paths of the groups the GitLab backend lists
GitlabGroups == {"devops"}
GroupTexts == {"platform"}

select_gitlab_group ==
  \/ /\ Dispatch("gitlab_group")
     /\ \E api_ok \in BOOLEAN :
          IF ~api_ok \/ "GITLAB_TOKEN" \notin DOMAIN environ
          THEN Raise(config)
          ELSE Show(select_with_input_dialog("gitlab_group",
                      GitlabGroups \cup {"_"}, config["gitlab_group"],
                      GroupTexts), config)
     /\ UNCHANGED <<world, runner>>
  \/ /\ Resumed("gitlab_group")
     /\ \E r \in select_with_input_dialog_returns(dlg) :
          /\ button' = PairButton(r)
          /\ IF Truthy(r[1])
             THEN Return(True,
                    [config EXCEPT !["gitlab_group"] = r[2],
                                   !["gitlab_group_create"] =
                                      IF r[2] \notin GitlabGroups \cup {"_"}
                                      THEN True ELSE False])
             ELSE Return(False, config)
     /\ UNCHANGED <<world, runner>>

\* d.pop(k) on a dict that has k
Pop(d, k) == [x \in (DOMAIN d) \ {k} |-> d[x]]

\* what the operator may leave the repository name fields with: as they are,
\* one name customised, one name emptied
RepositoryEdits(value) ==
  {value} \cup
  {[value EXCEPT ![k] = "my-bootstrap"] : k \in {"bootstrap"} \cap DOMAIN value}
  \cup {[value EXCEPT ![k] = ""] : k \in {"resman"} \cap DOMAIN value}

select_gitlab_repositories ==
  \/ /\ Dispatch("gitlab_repositories")
     /\ IF Truthy(config["use_upstream"])
        THEN IF "modules" \in DOMAIN config["gitlab_repositories"]
             THEN LET cfg == [config EXCEPT !["gitlab_repositories"] =
                                               Pop(@, "modules")]
                  IN Show(multi_input_dialog("gitlab_repositories",
                            cfg["gitlab_repositories"],
                            RepositoryEdits(cfg["gitlab_repositories"])), cfg)
             ELSE Raise(config)
        ELSE Show(multi_input_dialog("gitlab_repositories",
                    config["gitlab_repositories"],
                    RepositoryEdits(config["gitlab_repositories"])), config)
     /\ UNCHANGED <<world, runner>>
  \/ /\ Resumed("gitlab_repositories")
     /\ \E r \in multi_input_dialog_returns(dlg) :
          /\ button' = PairButton(r)
          /\ IF Truthy(r[1])
             THEN Return(True, [config EXCEPT !["gitlab_repositories"] = r[2]])
             ELSE Return(False, config)
     /\ UNCHANGED <<world, runner>>

-----------------------------------------------------------------------------
(* FastGithubConfigurator.                                                 *)
FastGithubConfigurator_config == [github_organization |-> None]

\* Configurations FastConfigurator.run_wizard returns to main for GitHub
IncomingGithubConfigs ==
  { [billing_account |-> "billingAccounts/B1", billing_account_in_org |-> True,
     billing_account_org |-> "organizations/1",
     organization |-> "organizations/1", networking_model |-> "nva",
     cicd |-> "github", directory_customer_id |-> "C01",
     domain |-> "example.com", prefix |-> "exam",
     bootstrap_output_path |-> bootstrap_output_path] }

FastGithubConfigurator_init(incoming) ==
  Put(Merge(FastCicdSystemConfigurator_init(FastGithubConfigurator_config,
                                            incoming), incoming),
      "github_repositories", [k \in Repositories |-> k])

select_github_token ==
  \/ /\ Dispatch("github_token")
     /\ IF ~Truthy(getenv("GITHUB_TOKEN"))
        THEN Show(input_dialog("github_token", "", TokenTexts), config)
        ELSE Return(True, config)
     /\ UNCHANGED <<world, runner>>
  \/ /\ Resumed("github_token")
     /\ \E choice \in input_dialog_returns(dlg) :
          /\ button' = ChoiceButton(choice)
          /\ environ' = IF Truthy(choice)
                        THEN Put(environ, "GITHUB_TOKEN", choice)
                        ELSE environ
          /\ Return(True, config)
     /\ UNCHANGED <<iam_policy, files, printed, tfvars_output, fmt_result, staged, runner>>

\* the logins of the organizations the GitHub backend lists
GithubOrganizations == {"acme", "acme-labs"}

select_github_organization ==
  \/ /\ Dispatch("github_organization")
     /\ \E api_ok \in BOOLEAN :
          IF ~api_ok \/ "GITHUB_TOKEN" \notin DOMAIN environ
          THEN Raise(config)
          ELSE Show(select_dialog("github_group", GithubOrganizations,
                                  config["github_organization"]), config)
     /\ UNCHANGED <<world, runner>>
  \/ /\ Resumed("github_organization")
     /\ \E r \in select_dialog_returns(dlg) :
          /\ button' = PairButton(r)
          /\ IF Truthy(r[1])
             THEN Return(True, [config EXCEPT !["github_organization"] = r[2]])
             ELSE Return(False, config)
     /\ UNCHANGED <<world, runner>>

select_github_repositories ==
  \/ /\ Dispatch("github_repositories")
     /\ IF Truthy(config["use_upstream"])
        THEN IF "modules" \in DOMAIN config["github_repositories"]
             THEN LET cfg == [config EXCEPT !["github_repositories"] =
                                               Pop(@, "modules")]
                  IN Show(multi_input_dialog("github_repositories",
                            cfg["github_repositories"],
                            RepositoryEdits(cfg["github_repositories"])), cfg)
             ELSE Raise(config)
        ELSE Show(multi_input_dialog("github_repositories",
                    config["github_repositories"],
                    RepositoryEdits(config["github_repositories"])), config)
     /\ UNCHANGED <<world, runner>>
  \/ /\ Resumed("github_repositories")
     /\ \E r \in multi_input_dialog_returns(dlg) :
          /\ button' = PairButton(r)
          /\ IF Truthy(r[1])
             THEN Return(True, [config EXCEPT !["github_repositories"] = r[2]])
             ELSE Return(False, config)
     /\ UNCHANGED <<world, runner>>

\* "gitlab" in v, for the values select_cicd offers
HasGitlab(v) == v \in {"gitlab-com", "gitlab-ce"}

\* FastDialogs.repositories: the description of each repository
repository_descriptions ==
  [r \in Repositories |->
     CASE r = "modules" -> "Fabric modules"
       [] r = "bootstrap" -> "Bootstrap stage"
       [] r = "cicd" -> "CI/CD setup stage"
       [] r = "resman" -> "Resource management stage"
       [] r = "networking" -> "Networking setup stage"
       [] r = "security" -> "Security configuration stage"
       [] r = "data-platform" -> "Data platform stage"
       [] r = "project-factory" -> "Project factory stage"]

\* the entries the loop over the repository names puts into
\* cicd_config["cicd_repositories"], when no name raises KeyError
cicd_repositories(cfg) ==
  LET gitlab == HasGitlab(cfg["cicd"])
      repos == cfg[IF gitlab THEN "gitlab_repositories"
                   ELSE "github_repositories"]
      owner == cfg[IF gitlab THEN "gitlab_group" ELSE "github_organization"]
  IN [k \in DOMAIN repos |->
        [name |-> <<owner, "/", repos[k]>>,
         description |-> repository_descriptions[repos[k]]]]

\* the mapping write_cicd_config hands to print_hcl; the None of a modules
\* repository that is not created stands as an entry with no name
cicd_config(cfg) ==
  LET backend == IF HasGitlab(cfg["cicd"]) THEN "gitlab" ELSE "github"
      repos == cicd_repositories(cfg)
  IN [cicd_repositories |->
        IF "modules" \in DOMAIN repos THEN repos
        ELSE Put(repos, "modules", [name |-> <<>>, description |-> None]),
      outputs_location |-> outputs_path,
      backend |-> backend]

\* write_cicd_config up to the end of its `with` block:
\* <<raised, files, config>>
write_cicd_config_body(fs, path, cfg) ==
  LET backend == IF HasGitlab(cfg["cicd"]) THEN "gitlab" ELSE "github"
      repos == cfg[IF backend = "gitlab" THEN "gitlab_repositories"
                   ELSE "github_repositories"]
      c1 == Put(Put(cfg, "bootstrap_identity_providers", backend),
                "bootstrap_repositories", backend)
      names == {repos[k] : k \in DOMAIN repos}
  IN IF names \subseteq Repositories
     THEN <<FALSE, WriteFile(fs, path, Written), c1>>
     ELSE <<TRUE, WriteFile(fs, path, Opened), c1>>

CicdPathTexts == {"", "my.tfvars"}

\* select_final_config with the bootstrap mapping built before
\* write_cicd_config has run
FastCicdSystemConfigurator_select_final_config_bootstrap_first ==
  \/ /\ wizard \in {"gitlab", "github"}
     /\ Dispatch("final_config")
     /\ Show(input_dialog("final_config", cicd_output_path, CicdPathTexts),
             config)
     /\ UNCHANGED <<world, runner>>
  \/ /\ wizard \in {"gitlab", "github"}
     /\ Resumed("final_config")
     /\ \E choice \in input_dialog_returns(dlg), fmt_ok \in BOOLEAN,
           fmt2_ok \in BOOLEAN :
          /\ button' = ChoiceButton(choice)
          /\ IF Truthy(choice)
             THEN LET cfg == [config EXCEPT !["cicd_output_path"] = cicd_output_path]
                      w == write_cicd_config_body(files, cicd_output_path, cfg)
                      t == terraform_format(w[2], cicd_output_path, fmt_ok)
                      b == write_bootstrap_config(t[2],
                             cfg["bootstrap_output_path"], w[3], fmt2_ok, t[3])
                      body == write_bootstrap_config_body(
                                t[2], cfg["bootstrap_output_path"], w[3])
                      p1 == print_hcl_to(printed, cicd_output_path,
                                         cicd_config(w[3]))
                  IN IF w[1]
                     THEN /\ Raise(w[3]) /\ files' = w[2]
                          /\ UNCHANGED <<fmt_result, printed>>
                     ELSE IF t[1]
                          THEN /\ Raise(w[3]) /\ files' = t[2]
                               /\ fmt_result' = t[3]
                               /\ printed' = p1
                          ELSE /\ files' = b[2]
                               /\ fmt_result' = b[3]
                               /\ printed' =
                                    IF body[1] THEN p1
                                    ELSE print_hcl_to(p1,
                                           cfg["bootstrap_output_path"],
                                           bootstrap_config(cfg))
                               /\ IF b[1] THEN Raise(w[3])
                                  ELSE Return(True, w[3])
             ELSE Return(False, config) /\ UNCHANGED <<files, printed, fmt_result>>
     /\ UNCHANGED <<iam_policy, tfvars_output, environ, staged, runner>>

FastCicdSystemConfigurator_select_final_config ==
  \/ /\ wizard \in {"gitlab", "github"}
     /\ Dispatch("final_config")
     /\ Show(input_dialog("final_config", cicd_output_path, CicdPathTexts),
             config)
     /\ UNCHANGED <<world, runner>>
  \/ /\ wizard \in {"gitlab", "github"}
     /\ Resumed("final_config")
     /\ \E choice \in input_dialog_returns(dlg), fmt_ok \in BOOLEAN,
           fmt2_ok \in BOOLEAN :
          /\ button' = ChoiceButton(choice)
          /\ IF Truthy(choice)
             THEN LET cfg == [config EXCEPT !["cicd_output_path"] = cicd_output_path]
                      w == write_cicd_config_body(files, cicd_output_path, cfg)
                      t == terraform_format(w[2], cicd_output_path, fmt_ok)
                      b == write_bootstrap_config(t[2],
                             cfg["bootstrap_output_path"], w[3], fmt2_ok, t[3])
                      body == write_bootstrap_config_body(
                                t[2], cfg["bootstrap_output_path"], w[3])
                      p1 == print_hcl_to(printed, cicd_output_path,
                                         cicd_config(w[3]))
                  IN IF w[1]
                     THEN /\ Raise(w[3]) /\ files' = w[2]
                          /\ UNCHANGED <<fmt_result, printed>>
                     ELSE IF t[1]
                          THEN /\ Raise(w[3]) /\ files' = t[2]
                               /\ fmt_result' = t[3]
                               /\ printed' = p1
                          ELSE /\ files' = b[2]
                               /\ fmt_result' = b[3]
                               /\ printed' =
                                    IF body[1] THEN p1
                                    ELSE print_hcl_to(p1,
                                           cfg["bootstrap_output_path"],
                                           bootstrap_config(w[3]))
                               /\ IF b[1] THEN Raise(w[3])
                                  ELSE Return(True, w[3])
             ELSE Return(False, config) /\ UNCHANGED <<files, printed, fmt_result>>
     /\ UNCHANGED <<iam_policy, tfvars_output, environ, staged, runner>>

-----------------------------------------------------------------------------
(* main.  Init puts the process at the first statement of the module that  *)
(* follows its imports, with FastConfigurator the class main will          *)
(* construct first, or at the call of run_wizard on a later configurator   *)
(* seeded with a Configuration the wizard before it returned.  The action  *)
(* main is what main does when run_wizard returns.                         *)

\* main constructs the configurator w: w.__init__ has made cfg of the
\* Configuration in main's local config, and w.run_wizard is not yet called
Construct(w, cfg) ==
  /\ wizard' = w
  /\ config' = cfg
  /\ pc' = "constructed"
  /\ dialog_index' = 0
  /\ go_to_next' = None
  /\ step' = ""
  /\ dlg' = NoDialog
  /\ button' = "none"
  /\ UNCHANGED <<retval, class_config, process>>

\* print("All done!")
AllDone ==
  /\ pc' = "done"
  /\ process' = print(process, "All done!")
  /\ UNCHANGED <<wizard, config, class_config, dialog_index, go_to_next, step, dlg,
                 button,
                 retval>>

\* the dictionaries the class statements bind to config
ClassConfigs ==
  [FastDialogs |-> FastDialogs_config,
   FastConfigurator |-> FastConfigurator_config,
   FastCicdConfigurator |-> FastCicdConfigurator_config,
   FastGitlabConfigurator |-> FastGitlabConfigurator_config,
   FastGithubConfigurator |-> FastGithubConfigurator_config]

\* the module without its two checks of shutil.which
module_level_unchecked ==
  /\ pc = "start"
  /\ pc' = "main"
  /\ UNCHANGED <<wizard, dialog_index, go_to_next, step, dlg, config,
                 class_config, process, retval, button>>
  /\ UNCHANGED <<world, runner, functions>>

\* the statements of the module that follow its imports: without git or
\* terraform on PATH the interpreter prints one message and exits with 1
module_level ==
  /\ pc = "start"
  /\ IF "git" \notin process.which
     THEN /\ process' = sys_exit(print(process, NoGit), 1)
          /\ pc' = "failed"
     ELSE IF "terraform" \notin process.which
          THEN /\ process' = sys_exit(print(process, NoTerraform), 1)
               /\ pc' = "failed"
          ELSE /\ pc' = "main"
               /\ UNCHANGED process
  /\ UNCHANGED <<wizard, dialog_index, go_to_next, step, dlg, config,
                 class_config, retval, button>>
  /\ UNCHANGED <<world, runner, functions>>

\* main prints its banner, constructs the FastConfigurator and calls its
\* run_wizard
main_start ==
  /\ pc = "main"
  /\ process' = print(process, Banner)
  /\ pc' = "loop"
  /\ UNCHANGED <<wizard, dialog_index, go_to_next, step, dlg, config,
                 class_config, retval, button>>
  /\ UNCHANGED <<world, runner, functions>>

\* main going from the core wizard straight to the repository-push wizard
main_unordered ==
  /\ pc = "returned"
  /\ IF wizard = "core"
     THEN Construct("cicd", FastCicdConfigurator_init(retval))
     ELSE AllDone
  /\ UNCHANGED <<world, runner, functions>>

\* run_wizard returned to main, which assigned the result to its config
main ==
  /\ pc = "returned"
  /\ IF wizard = "core"
     THEN IF HasGitlab(retval["cicd"]) \/ retval["cicd"] = "github"
          THEN IF HasGitlab(retval["cicd"])
               THEN Construct("gitlab", FastGitlabConfigurator_init(retval))
               ELSE Construct("github", FastGithubConfigurator_init(retval))
          ELSE AllDone
     ELSE IF wizard \in {"gitlab", "github"}
          THEN Construct("cicd", FastCicdConfigurator_init(retval))
          ELSE AllDone
  /\ UNCHANGED <<world, runner, functions>>

Init ==
  /\ \/ /\ wizard = "core"
        /\ config = FastConfigurator_config
        /\ retval = None
        /\ pc = "start"
        /\ \E which \in SUBSET Tools : process = Started(which)
        /\ \E p \in InitialPolicies : iam_policy = [o \in Organizations |-> p]
        /\ environ = <<>>
     \/ /\ wizard = "gitlab"
        /\ retval \in IncomingGitlabConfigs
        /\ pc = "loop"
        /\ process = Running
        /\ config = FastGitlabConfigurator_init(retval)
        /\ iam_policy = [o \in Organizations |-> HeldPolicy]
        /\ environ \in {<<>>, [GITLAB_TOKEN |-> "glpat-0"]}
     \/ /\ wizard = "github"
        /\ retval \in IncomingGithubConfigs
        /\ pc = "loop"
        /\ process = Running
        /\ config = FastGithubConfigurator_init(retval)
        /\ iam_policy = [o \in Organizations |-> HeldPolicy]
        /\ environ \in {<<>>, [GITHUB_TOKEN |-> "ghp-0"]}
     \/ /\ wizard = "cicd"
        /\ retval \in IncomingCicdConfigs
        /\ pc = "loop"
        /\ process = Running
        /\ config = FastCicdConfigurator_init(retval)
        /\ iam_policy = [o \in Organizations |-> HeldPolicy]
        /\ environ = [GITLAB_TOKEN |-> "glpat-0"]
  /\ dialog_index = 0
  /\ NoStaging
  /\ staged = <<>>
  /\ printed = <<>>
  /\ class_config = ClassConfigs
  /\ go_to_next = None
  /\ step = ""
  /\ dlg = NoDialog
  /\ tfvars_output = FALSE
  /\ fmt_result = NoFmt
  /\ tf_pos = 0
  /\ tf = NoRun
  /\ files = <<>>
  /\ button = "none"
  /\ content = [t |-> "NoneType"]
  /\ f = <<>>
  /\ hcl_pc = "idle"

Next ==
  \/ module_level
  \/ main_start
  \/ run_wizard_IndexError
  \/ quit_handler
  \/ maybe_quit
  \/ select_billing_account
  \/ select_organization
  \/ select_billing_account_in_org
  \/ select_billing_account_org
  \/ select_prerequisites
  \/ select_cicd
  \/ select_networking
  \/ select_prefix
  \/ FastConfigurator_select_final_config
  \/ select_upstream_modules
  \/ select_gitlab_url
  \/ select_gitlab_token
  \/ select_gitlab_group
  \/ select_gitlab_repositories
  \/ FastCicdSystemConfigurator_select_final_config
  \/ select_github_token
  \/ select_github_organization
  \/ select_github_repositories
  \/ select_terraform
  \/ read_subprocess_stdout
  \/ read_subprocess_stderr
  \/ read_subprocess
  \/ subprocess_exit
  \/ async_run_terraform
  \/ ok_handler
  \/ previous_handler
  \/ tf_quit_handler
  \/ run_terraform_until_ok
  \/ tf_maybe_quit
  \/ select_git
  \/ main

Spec == Init /\ [][Next]_vars

-----------------------------------------------------------------------------
(* The HCL serialiser, print_hcl_scalar and print_hcl.  A Python value is  *)
(* a record of its type name t and its payload: a str holds a sequence     *)
(* of characters, a list a sequence of values, a dict the sequence of its  *)
(* <<key, value>> items in insertion order.  The text written to f is the  *)
(* sequence of the pieces written: a string literal and the indentation    *)
(* character by character, every other piece as one element.               *)
MaxStr == 2     \* characters of a str
MaxList == 2    \* elements of a list

indent_spaces == 2

\* each type keeps its payload in a field of its own
PyNone == [t |-> "NoneType"]
PyBool(b) == [t |-> "bool", b |-> b]
PyInt(i) == [t |-> "int", i |-> i]
PyStr(s) == [t |-> "str", s |-> s]
PyList(l) == [t |-> "list", l |-> l]
PyDict(d) == [t |-> "dict", d |-> d]
\* a value of a type neither function has a branch for
PySet == [t |-> "set"]

\* isinstance(x, T): bool is a subclass of int
isinstance(x, T) == x.t = T \/ (T = "int" /\ x.t = "bool")

\* the items in the opposite order
items_reversed(x) == [i \in 1..Len(x.d) |-> x.d[Len(x.d) + 1 - i]]

\* d.items()
items(x) == x.d

\* str(i) of an int
str(i) == ToString(i)

\* a replace that leaves the text as it is
replace_nothing(s) == s

RECURSIVE replace(_)
\* s.replace("\"", "\\\"")
replace(s) ==
  IF s = <<>> THEN <<>>
  ELSE (IF Head(s) = "\"" THEN <<"\\", "\"">> ELSE <<Head(s)>>)
       \o replace(Tail(s))

\* n * " "
Spaces(n) == [i \in 1..n |-> " "]

RECURSIVE print_hcl_scalar(_)
RECURSIVE print_hcl_scalar_loop(_, _)
\* the loop of print_hcl_scalar over the elements of a list, from element i
print_hcl_scalar_loop(l, i) ==
  IF i > Len(l) THEN <<>>
  ELSE (IF i # 1 THEN <<", ">> ELSE <<>>)
       \o print_hcl_scalar(l[i])
       \o print_hcl_scalar_loop(l, i + 1)

\* what print_hcl_scalar(f, scalar) writes
print_hcl_scalar(scalar) ==
  (IF scalar.t = "NoneType" THEN <<"null">> ELSE <<>>)
  \o (IF isinstance(scalar, "str")
      THEN <<"\"">> \o replace(scalar.s) \o <<"\"">>
      ELSE IF isinstance(scalar, "bool")
      THEN <<IF scalar.b = TRUE THEN "true" ELSE "false">>
      ELSE IF isinstance(scalar, "int") \/ isinstance(scalar, "float")
      THEN <<str(scalar.i)>>
      ELSE IF isinstance(scalar, "list")
      THEN <<"[">> \o print_hcl_scalar_loop(scalar.l, 1) \o <<"]">>
      ELSE <<>>)

RECURSIVE print_hcl(_, _)
RECURSIVE print_hcl_loop(_, _, _)
\* the loop of print_hcl over the items kv of a dict, from item i
print_hcl_loop(kv, i, indent) ==
  IF i > Len(kv) THEN <<>>
  ELSE Spaces(indent * indent_spaces)
       \o <<kv[i][1], " = ">>
       \o print_hcl(kv[i][2], indent + 1)
       \o print_hcl_loop(kv, i + 1, indent)

\* what print_hcl(content, f, indent) writes, x being its content
print_hcl(x, indent) ==
  (IF isinstance(x, "dict")
   THEN Spaces(indent * indent_spaces)
        \o (IF indent # 0 THEN <<"{\n">> ELSE <<>>)
        \o print_hcl_loop(items(x), 1, indent)
        \o Spaces(indent * indent_spaces)
        \o (IF indent # 0 THEN <<"}\n">> ELSE <<>>)
   ELSE print_hcl_scalar(x))
  \o <<"\n">>

\* the values print_hcl is called with
Chars == {"a", "\"", "\\"}
Strings == UNION {[1..n -> Chars] : n \in 0..MaxStr}
Scalars ==
  {PyNone, PyBool(TRUE), PyBool(FALSE), PyInt(0), PyInt(1)}
  \cup {PyStr(s) : s \in Strings}
ListElements ==
  {PyNone, PyBool(TRUE), PyInt(1), PyStr(<<"a">>), PyStr(<<"\"">>), PySet,
   PyList(<<PyInt(1)>>), PyDict(<<>>)}
Lists == {PyList(l) : l \in UNION {[1..n -> ListElements] : n \in 0..MaxList}}

\* the dicts of at most two items with keys in K and values in V
Dicts(K, V) ==
  {PyDict(<<>>)}
  \cup {PyDict(<< <<k, v>> >>) : k \in K, v \in V}
  \cup {PyDict(<< <<kk[1], vv[1]>>, <<kk[2], vv[2]>> >>) :
          kk \in {x \in K \X K : x[1] # x[2]}, vv \in V \X V}

InnerValues ==
  {PyNone, PyBool(TRUE), PyInt(1), PyStr(<<"a">>),
   PyDict(<< <<"e", PyInt(1)>> >>)}
Values ==
  Scalars \cup {PySet} \cup Lists \cup Dicts({"c", "d"}, InnerValues)
PairValues ==
  {PyInt(1), PyStr(<<"a">>), PyList(<<PyInt(0), PyInt(1)>>), PySet,
   PyDict(<< <<"c", PyBool(TRUE)>> >>)}
Contents ==
  Values
  \cup {PyDict(<< <<k, v>> >>) : k \in {"a", "b"}, v \in Values}
  \cup Dicts({"a", "b"}, PairValues)

\* a file was opened for writing and print_hcl is called with it
InitHcl ==
  /\ content \in Contents
  /\ f = <<>>
  /\ hcl_pc = "call"
  /\ NoStaging
  /\ staged = <<>>
  /\ printed = <<>>
  /\ class_config = ClassConfigs
  /\ process = Running
  /\ wizard = "core"
  /\ config = FastConfigurator_config
  /\ retval = None
  /\ iam_policy = [o \in Organizations |-> HeldPolicy]
  /\ environ = <<>>
  /\ dialog_index = 0
  /\ go_to_next = None
  /\ pc = "write"
  /\ step = ""
  /\ dlg = NoDialog
  /\ tfvars_output = FALSE
  /\ fmt_result = NoFmt
  /\ tf_pos = 0
  /\ tf = NoRun
  /\ files = <<>>
  /\ button = "none"

\* print_hcl(content, f) runs to its end
print_hcl_call ==
  /\ hcl_pc = "call"
  /\ f' = f \o print_hcl(content, 0)
  /\ hcl_pc' = "done"
  /\ UNCHANGED <<content, wizard, dialog_index, go_to_next, pc, step, dlg,
                 config, class_config, process, retval, button, world, runner, staging>>

NextHcl == print_hcl_call

SpecHcl == InitHcl /\ [][NextHcl]_vars

-----------------------------------------------------------------------------
(* Calls of change_module_source and of copy_with_patterns on their own.    *)
MaxFileLines == 2   \* lines of a file

TfLines ==
  {<<"source", " = ", "\"", "../", "modules", "/", "network", "\"">>,
   ModuleLine(3, "project"),
   <<"source", "=", "\"", "./", "network", "\"", " # ", "../", "modules">>,
   <<"  ", "source", " = ", "\"", "hashicorp/google", "\"">>,
   VersionLine}
TfFiles == UNION {[1..n -> TfLines] : n \in 1..MaxFileLines}
TargetRepositories ==
  {<<"git::", "https://example/repo.git">>, <<"https://example/repo.git">>,
   fabric_repository}
Tags == {None, "", "v1.2.3"}

\* listings of a source directory: any top-level entries, a directory with
\* what is below it
TopEntries ==
  {File(<<"main.tf">>), File(<<"terraform.tfvars">>), File(<<".lint.tf">>),
   File(<<"ci.yaml">>), Dir(<<"data">>), Dir(<<"tools">>)}
Below(e) ==
  IF e = Dir(<<"data">>)
  THEN {File(<<"data", "vars.tf">>), File(<<"data", ".keep">>)}
  ELSE IF e = Dir(<<"tools">>) THEN {File(<<"tools", "main.tf">>)}
  ELSE {}
Listings == {top \cup UNION {Below(e) : e \in top} : top \in SUBSET TopEntries}
PatternLists == {to_include, modules_include, <<"*">>, <<>>}

InitStage ==
  /\ cwd = WorkDir
  /\ \/ /\ stage_pc = "rewrite"
        /\ tf_file \in TfFiles
        /\ target_repository \in TargetRepositories
        /\ tag \in Tags
        /\ tree = WorkingTree
        /\ copy_args = NoCopy
     \/ /\ stage_pc = "copy"
        /\ \E l \in Listings, t \in {{}, {Dir(<<"data">>)}} :
             tree = [d \in {"src", "tmp"} |-> IF d = "src" THEN l ELSE t]
        /\ copy_args \in
             [source_dir : {"src", "missing"}, target_dir : {"tmp"},
              patterns : PatternLists]
        /\ tf_file = <<>>
        /\ target_repository = <<>>
        /\ tag = None
  /\ staged = <<>>
  /\ printed = <<>>
  /\ class_config = ClassConfigs
  /\ process = Running
  /\ content = PyNone
  /\ f = <<>>
  /\ hcl_pc = "idle"
  /\ wizard = "cicd"
  /\ config = FastCicdConfigurator_config
  /\ retval = None
  /\ iam_policy = [o \in Organizations |-> HeldPolicy]
  /\ environ = <<>>
  /\ dialog_index = 0
  /\ go_to_next = None
  /\ pc = "git"
  /\ step = ""
  /\ dlg = NoDialog
  /\ tfvars_output = FALSE
  /\ fmt_result = NoFmt
  /\ tf_pos = 0
  /\ tf = NoRun
  /\ files = <<>>
  /\ button = "none"

\* change_module_source(filename, target_repository, tag) runs to its end
change_module_source_call ==
  /\ stage_pc = "rewrite"
  /\ tf_file' = change_module_source(tf_file, target_repository, tag)
  /\ stage_pc' = "rewritten"
  /\ UNCHANGED <<cwd, tree, copy_args, target_repository, tag,
                 serializer, wizard, dialog_index, go_to_next, pc, step, dlg,
                 config, class_config, process, retval, button, world, runner>>

\* copy_with_patterns(source_dir, target_dir, patterns): os.chdir raises for
\* a directory that does not exist, shutil.copytree for one the target
\* already has, after any of the other entries were copied
copy_with_patterns_call ==
  /\ stage_pc = "copy"
  /\ LET a == copy_args
     IN IF a.source_dir \notin DOMAIN tree
        THEN /\ stage_pc' = "raised"
             /\ UNCHANGED <<cwd, tree>>
        ELSE IF Existing(tree, a.source_dir, a.target_dir, a.patterns) # {}
        THEN /\ stage_pc' = "raised"
             /\ cwd' = a.source_dir
             /\ \E ns \in SUBSET (Included(tree, a.source_dir, a.patterns)
                          \ Existing(tree, a.source_dir, a.target_dir,
                                     a.patterns)) :
                  tree' = [tree EXCEPT ![a.target_dir] =
                             @ \cup Copies(tree, a.source_dir, ns)]
        ELSE /\ stage_pc' = "copied"
             /\ cwd' = cwd
             /\ tree' = copy_with_patterns(tree, a.source_dir, a.target_dir,
                                           a.patterns)
  /\ UNCHANGED <<copy_args, tf_file, target_repository, tag,
                 serializer, wizard, dialog_index, go_to_next, pc, step, dlg,
                 config, class_config, process, retval, button, world, runner>>

NextStage == change_module_source_call \/ copy_with_patterns_call

SpecStage == InitStage /\ [][NextStage]_vars

-----------------------------------------------------------------------------
(* Properties.                                                             *)

\* a handler returned to run_wizard in this step
HandlerReturned == pc \in {"loop", "dialog"} /\ pc' \in {"loop", "returned"}

\* the operator left the dialog of the step at the cursor with a value (not
\* with Quit), and the handler turned it into a falsy result
DialogLeftWithGoBack ==
  /\ pc = "dialog"
  /\ dlg'.kind = "none"
  /\ pc' # "raised"
  /\ ~Truthy(go_to_next')

\* C1: the cursor is always in [0, len(setup_wizard)] and the handler that
\* is running is the one at the cursor in the step list
C1_CursorInRange ==
  /\ dialog_index \in 0..Len(setup_wizard)
  /\ pc \in {"dialog", "maybe_quit"} =>
       /\ dialog_index < Len(setup_wizard)
       /\ step = setup_wizard[dialog_index + 1]

\* C2: a go-back from step 0 makes the driver ask the abort confirmation,
\* with the cursor still at step 0 and the Configuration unchanged
C2_RetreatFromFirstAsksQuit ==
  [][(dialog_index = 0 /\ DialogLeftWithGoBack) =>
       (pc' = "maybe_quit" /\ dialog_index' = 0 /\ config' = config)]_vars

\* C3: a success at cursor i moves the cursor to i+1, a go-back at i > 0 to
\* i-1, and the handler dispatched at a cursor is the step at that cursor
C3_CursorMovesByOne ==
  [][/\ (HandlerReturned /\ dialog_index >= 0 /\ Truthy(go_to_next')) =>
          dialog_index' = dialog_index + 1
     /\ (HandlerReturned /\ dialog_index > 0 /\ ~Truthy(go_to_next')) =>
          dialog_index' = dialog_index - 1
     /\ (pc = "loop" /\ pc' # "raised" /\ dialog_index >= 0) =>
          step' = setup_wizard[dialog_index + 1]]_vars
C3_Witness ==
  /\ dialog_index = 1
  /\ go_to_next = False
  /\ pc = "dialog"
  /\ step = "organization"
  /\ config["organization"] # None

\* C4: run_wizard has returned (and main may have printed its last message)
\* exactly when the cursor is len(setup_wizard), and it returned the
\* Configuration with the handlers' mutations
C4_ReturnsAtEnd ==
  /\ pc \in {"returned", "done"} <=> dialog_index = Len(setup_wizard)
  /\ pc \in {"returned", "done"} => retval = config
C4_Witness ==
  /\ pc = "returned"
  /\ wizard = "core"
  /\ retval["prefix"] = "fast"
  /\ retval["cicd"] = "github"

\* C7: the pre-filled value of a prompting step that already has a value in
\* the Configuration is that value
PromptKey ==
  [billing_account |-> "billing_account", organization |-> "organization",
   cicd |-> "cicd", networking |-> "networking_model", prefix |-> "prefix",
   gitlab_url |-> "gitlab_url", gitlab_group |-> "gitlab_group"]
C7_DefaultsFromConfig ==
  (pc = "dialog" /\ dialog_index >= 0) =>
    /\ step \in DOMAIN PromptKey =>
         (config[PromptKey[step]] # None => dlg.value = config[PromptKey[step]])
    /\ step = "gitlab_repositories" => dlg.value = config["gitlab_repositories"]

\* C5: the process exits on an operator Quit only from the abort confirmation,
\* and the abort confirmation is shown only for a Quit pressed in a dialog
C5_QuitIsConfirmed ==
  [][/\ (pc' = "exited" /\ pc # "exited") => pc = "maybe_quit"
     /\ (pc' = "maybe_quit" /\ pc # "maybe_quit") =>
          \/ pc = "dialog" /\ dlg' = dlg
          \/ pc = "tf_run" /\ tf.app = "exited" /\ tf.result = None]_vars
C5_Witness ==
  /\ pc = "exited"
  /\ dlg.kind = "terraform"
  /\ tf.result = None

\* C6: a Quit that the operator then declines presents the same dialog
\* again, with the cursor and the Configuration as they were
C6_DeclinedQuitStays ==
  [][(pc = "maybe_quit" /\ pc' # "exited") =>
       /\ dialog_index' = dialog_index
       /\ config' = config
       /\ dlg' = dlg
       /\ tf_pos' = tf_pos
       /\ pc' \in {"dialog", "tf_run"}]_vars

\* C8: select_terraform leaves a command (for its next command or for the
\* driver) only when the last run of that command exited 0
C8_NoAdvancePastFailure ==
  [][(pc \in {"tf_run", "maybe_quit"} /\ dlg.kind = "terraform"
        /\ pc' # "exited" /\ (tf_pos' # tf_pos \/ pc' \in {"loop", "returned"}))
       => tf.return_code = 0]_vars

\* C9: outside the runner's wait no subprocess is running: when control has
\* left run_until_complete the command has exited and both streams are at
\* end-of-file
C9_NoOrphan ==
  (tf.proc # "none" /\ (pc # "tf_run" \/ Gathered(tf))) =>
     (tf.proc = "exited" /\ tf.out_eof /\ tf.err_eof)
C9_Witness ==
  /\ pc = "tf_run"
  /\ tf.proc = "running"
  /\ tf.app = "exited"
  /\ tf.result = None

\* C10: a Retry after a failed run starts one new subprocess of the same
\* command in the same directory, with empty buffers
C10_RetryRunsAgain ==
  [][(pc = "tf_run" /\ Gathered(tf) /\ tf.result = True /\ tf.return_code # 0)
       => /\ pc' = "tf_run"
          /\ tf_pos' = tf_pos
          /\ tf'.spawned = tf.spawned + 1
          /\ tf'.proc = "running"
          /\ tf'.cmd = tf.cmd /\ tf'.dir = tf.dir
          /\ tf'.tf_stdout = 0 /\ tf'.tf_stderr = 0 /\ tf'.output_label = 0
          /\ tf'.ok_text = "Wait..."]_vars
C10_Witness ==
  /\ pc = "tf_run"
  /\ tf.spawned = 3
  /\ tf.proc = "running"
  /\ tf.output_label = 0
  /\ tf.cmd = "terraform apply -auto-approve"
  /\ tf.dir = "stages/00-cicd"

\* C11: a step handler that returns from its dialog advances exactly when the
\* operator left the dialog with Ok (a confirmed empty text included), and
\* signals go-back when the operator pressed Previous
C11_ConfirmedOrBack ==
  [][(pc = "dialog" /\ dialog_index >= 0 /\ HandlerReturned) =>
       /\ button' = "Ok" => Truthy(go_to_next')
       /\ button' = "Previous" => ~Truthy(go_to_next')]_vars

\* the environment variable of the credential step, and the key of the
\* repositories mapping, of each CI/CD-specific wizard
TokenVariable == [gitlab |-> "GITLAB_TOKEN", github |-> "GITHUB_TOKEN"]
RepositoriesKey ==
  [gitlab |-> "gitlab_repositories", github |-> "github_repositories"]

\* C12: at the credential step (gitlab_token, github_token), a token variable
\* that is set suppresses the prompt, a missing one makes the step show its
\* prompt, and the cursor moves on to the next step only with the variable
\* set in the environment
C12_TokenSetBeforeNext ==
  [][(/\ wizard \in DOMAIN TokenVariable
      /\ pc \in {"loop", "dialog"}
      /\ dialog_index >= 0 /\ InRange(dialog_index)
      /\ StepAt(dialog_index) \in {"gitlab_token", "github_token"}) =>
       /\ (pc = "loop" /\ TokenVariable[wizard] \in DOMAIN environ) =>
            pc' # "dialog"
       /\ (pc = "loop" /\ TokenVariable[wizard] \notin DOMAIN environ) =>
            (pc' = "dialog" /\ dlg'.kind = "input")
       /\ dialog_index' = dialog_index + 1 =>
            TokenVariable[wizard] \in DOMAIN environ']_vars

\* C13: no step removes a key of the Configuration, the repositories mapping
\* loses no key but "modules", and entering the repositories step never
\* fails and, with upstream modules in use, leaves the mapping without
\* "modules"
C13_ModulesRemovalIsSafe ==
  [][(wizard \in DOMAIN RepositoriesKey /\ wizard' = wizard) =>
       /\ DOMAIN config \subseteq DOMAIN config'
       /\ (DOMAIN config[RepositoriesKey[wizard]]) \ {"modules"}
            \subseteq DOMAIN config'[RepositoriesKey[wizard]]
       /\ (/\ pc = "loop"
           /\ dialog_index >= 0 /\ InRange(dialog_index)
           /\ StepAt(dialog_index) \in {"gitlab_repositories",
                                        "github_repositories"}) =>
            /\ pc' # "raised"
            /\ Truthy(config["use_upstream"]) =>
                 "modules" \notin DOMAIN config'[RepositoriesKey[wizard]]]_vars

\* the defaults a later wizard's __init__ starts its Configuration from
Defaults ==
  [gitlab |-> Merge(FastGitlabConfigurator_config, FastDialogs_config),
   github |-> Merge(FastGithubConfigurator_config, FastDialogs_config),
   cicd |-> FastCicdConfigurator_config]

\* C14: when main has constructed a later wizard from the Configuration the
\* wizard before it returned, every incoming key its defaults do not define
\* has the incoming value, and every key its defaults define has the default
C14_MergeKeepsDefaults ==
  pc = "constructed" =>
    /\ \A k \in (DOMAIN retval) \ DOMAIN Defaults[wizard] :
         k \in DOMAIN config /\ config[k] = retval[k]
    /\ \A k \in DOMAIN Defaults[wizard] :
         k \in DOMAIN config /\ config[k] = Defaults[wizard][k]

\* C15: the wizard changes only when run_wizard has returned at its terminal
\* cursor, from the core wizard to the GitLab or GitHub one as the chosen
\* backend says and from those to the repository-push one, the new wizard
\* holding every key of the returned Configuration; with another backend the
\* core wizard is followed by the completion message, which is printed only
\* after the last wizard returned
C15_WizardsInOrder ==
  [][/\ wizard' # wizard =>
          /\ pc = "returned" /\ dialog_index = Len(setup_wizard)
          /\ \/ wizard = "core" /\ wizard' = "gitlab" /\ HasGitlab(retval["cicd"])
             \/ wizard = "core" /\ wizard' = "github" /\ retval["cicd"] = "github"
             \/ wizard \in {"gitlab", "github"} /\ wizard' = "cicd"
          /\ \A k \in DOMAIN retval :
               k \in DOMAIN config' /\ config'[k] = retval[k]
     /\ (/\ pc = "returned" /\ wizard = "core"
         /\ ~HasGitlab(retval["cicd"]) /\ retval["cicd"] # "github") =>
          (pc' = "done" /\ wizard' = wizard)
     /\ (pc' = "done" /\ pc # "done") =>
          /\ pc = "returned"
          /\ \/ wizard = "cicd"
             \/ wizard = "core" /\ retval["cicd"] \in {"cloudbuild", "custom"}]_vars
C15_Witness ==
  /\ pc = "constructed"
  /\ wizard = "gitlab"
  /\ config["cicd"] = "gitlab-ce"
  /\ config["prefix"] = "fast"
  /\ config["gitlab_url"] = None

\* C16: a `terraform fmt` run that exits non-zero raises an error out of the
\* step, which signals nothing to the driver (the cursor and go_to_next stay),
\* and the file it ran on keeps the content that was written
C16_FormatFailureRaises ==
  [][(fmt_result' # fmt_result /\ fmt_result'.returncode # 0) =>
       /\ pc' = "raised"
       /\ dialog_index' = dialog_index
       /\ go_to_next' = go_to_next
       /\ fmt_result'.filename \in DOMAIN files'
       /\ files'[fmt_result'.filename] \in {Written, Formatted}]_vars
C16_Witness ==
  /\ pc = "raised"
  /\ wizard = "gitlab"
  /\ fmt_result = [filename |-> bootstrap_output_path, returncode |-> 1]
  /\ files[cicd_output_path] = Formatted
  /\ files[bootstrap_output_path] = Written

RECURSIVE HasUnsupported(_)
\* x is, or holds at some depth, a value of a type the serialiser has no
\* rendering for
HasUnsupported(x) ==
  \/ x.t \notin {"NoneType", "bool", "int", "float", "str", "list", "dict"}
  \/ x.t = "list" /\ \E i \in 1..Len(x.l) : HasUnsupported(x.l[i])
  \/ x.t = "dict" /\ \E i \in 1..Len(x.d) : HasUnsupported(x.d[i][2])

\* C17: serialising a content that holds a value of an unsupported type, at
\* any depth, ends in an error and leaves nothing written
C17_UnsupportedRaises ==
  (hcl_pc # "call" /\ HasUnsupported(content)) =>
    (hcl_pc = "raised" /\ f = <<>>)

RECURSIVE PreorderKeys(_, _)
\* the keys of a mapping and of the mappings nested in its values, each with
\* its nesting depth, in insertion order, a nested mapping's keys right after
\* the key that holds it
PreorderKeys(x, depth) ==
  IF x.t # "dict" \/ x.d = <<>> THEN <<>>
  ELSE << <<x.d[1][1], depth>> >>
       \o PreorderKeys(x.d[1][2], depth + 1)
       \o PreorderKeys(PyDict(Tail(x.d)), depth)

RECURSIVE RenderedKeys(_, _, _)
\* the keys assigned in a text, from piece i on, each with the number of
\* blocks open around it
RenderedKeys(out, i, depth) ==
  IF i > Len(out) THEN <<>>
  ELSE IF out[i] = "{\n" THEN RenderedKeys(out, i + 1, depth + 1)
  ELSE IF out[i] = "}\n" THEN RenderedKeys(out, i + 1, depth - 1)
  ELSE IF i < Len(out) /\ out[i + 1] = " = "
  THEN << <<out[i], depth>> >> \o RenderedKeys(out, i + 1, depth)
  ELSE RenderedKeys(out, i + 1, depth)

ExampleMapping ==
  PyDict(<< <<"a", PyInt(1)>>,
            <<"b", PyDict(<< <<"c", PyBool(TRUE)>> >>)>> >>)

\* a = 1 / b =   { / c = true / } , with the indentation of each level
ExampleText ==
  <<"a", " = ", "1", "\n",
    "b", " = ", " ", " ", "{\n",
    " ", " ", "c", " = ", "true", "\n",
    " ", " ", "}\n", "\n",
    "\n">>

\* C18: the keys of every mapping reached through mapping values are rendered
\* in insertion order, a nested mapping as a block opened after its own key
\* and closed before the next sibling key; {"a": 1, "b": {"c": true}} renders
\* a before b and c = true inside b's block
C18_KeysInInsertionOrder ==
  hcl_pc = "done" =>
    /\ RenderedKeys(f, 1, 0) = PreorderKeys(content, 0)
    /\ content = ExampleMapping => f = ExampleText
C18_Witness ==
  /\ hcl_pc = "done"
  /\ content = ExampleMapping
  /\ RenderedKeys(f, 1, 0) = << <<"a", 0>>, <<"b", 0>>, <<"c", 1>> >>

RECURSIVE IsSupported(_)
\* null, booleans, integers, strings, and lists of these
IsSupported(x) ==
  \/ x.t \in {"NoneType", "bool", "int", "str"}
  \/ x.t = "list" /\ \A i \in 1..Len(x.l) : IsSupported(x.l[i])

\* the number of double quotes among the first i characters of s
Quotes(s, i) == Cardinality({j \in 1..i : s[j] = "\""})

\* out is s with a backslash put before each of its double quotes, and with
\* nothing else changed
IsEscaped(out, s) ==
  /\ Len(out) = Len(s) + Quotes(s, Len(s))
  /\ \A i \in 1..Len(s) :
       /\ out[i + Quotes(s, i)] = s[i]
       /\ s[i] = "\"" => out[i + Quotes(s, i) - 1] = "\\"

\* the decimal literal of an integer
Decimal(i) == CASE i = 0 -> "0" [] i = 1 -> "1" [] i = 2 -> "2"

RECURSIVE IsToken(_, _)
\* out is the one token of the supported value x
IsToken(out, x) ==
  CASE x.t = "NoneType" -> out = <<"null">>
    [] x.t = "bool" -> out = <<IF x.b THEN "true" ELSE "false">>
    [] x.t = "int" -> out = <<Decimal(x.i)>>
    [] x.t = "str" ->
         /\ Len(out) >= 2
         /\ out[1] = "\""
         /\ out[Len(out)] = "\""
         /\ IsEscaped(SubSeq(out, 2, Len(out) - 1), x.s)
    [] x.t = "list" ->
         /\ Len(out) >= 2
         /\ out[1] = "["
         /\ out[Len(out)] = "]"
         /\ \E cut \in [0..Len(x.l) -> 1..Len(out)] :
              \* cut[i] is the last piece of element i (cut[0]: the bracket)
              /\ cut[0] = 1
              /\ Len(x.l) = 0 => Len(out) = 2
              /\ Len(x.l) > 0 => cut[Len(x.l)] = Len(out) - 1
              /\ \A i \in 1..Len(x.l) :
                   LET from == IF i = 1 THEN 2 ELSE cut[i - 1] + 2
                   IN /\ i > 1 => out[cut[i - 1] + 1] = ", "
                      /\ from <= cut[i]
                      /\ IsToken(SubSeq(out, from, cut[i]), x.l[i])

\* C19: print_hcl_scalar writes exactly one token for a supported scalar: null
\* for None, true or false for a boolean, the decimal literal for an integer,
\* a double-quoted string with each inner double quote escaped for a string,
\* and the bracketed, comma-separated tokens of its elements for a list; the
\* value of a mapping's key is written after "key = " in the same way
C19_OneTokenPerScalar ==
  hcl_pc = "done" =>
    /\ IsSupported(content) =>
         /\ f # <<>>
         /\ f[Len(f)] = "\n"
         /\ IsToken(SubSeq(f, 1, Len(f) - 1), content)
    /\ (content.t = "dict" /\ Len(content.d) = 1
        /\ IsSupported(content.d[1][2])) =>
         /\ Len(f) > 4
         /\ SubSeq(f, 1, 2) = <<content.d[1][1], " = ">>
         /\ SubSeq(f, Len(f) - 1, Len(f)) = <<"\n", "\n">>
         /\ IsToken(SubSeq(f, 3, Len(f) - 2), content.d[1][2])
C19_Witness ==
  /\ hcl_pc = "done"
  /\ content = PyList(<<PyBool(TRUE), PyStr(<<"\"">>)>>)
  /\ f = <<"[", "true", ", ", "\"", "\\", "\"", "\"", "]", "\n">>

(* Reading the written text back, by the syntax of the target format: a body
   of "key = value" lines, null, true, false, decimal literals, quoted
   strings in which a backslash starts an escape sequence, [ ... ] lists and
   { ... } blocks. A parse result is [ok, v, next]: whether the text could be
   read, the value read and the piece after it. *)
ParseError == [ok |-> FALSE, v |-> PyNone, next |-> 0]
Parsed(v, next) == [ok |-> TRUE, v |-> v, next |-> next]

Identifiers == {"a", "b", "c", "d", "e"}

RECURSIVE SkipSpaces(_, _)
SkipSpaces(out, i) ==
  IF i <= Len(out) /\ out[i] = " " THEN SkipSpaces(out, i + 1) ELSE i

RECURSIVE ParseString(_, _, _)
\* the characters of a quoted string from piece i on, acc read so far
ParseString(out, i, acc) ==
  IF i > Len(out) THEN ParseError                   \* no closing quote
  ELSE IF out[i] = "\"" THEN Parsed(PyStr(acc), i + 1)
  ELSE IF out[i] \in {"\n", "{\n", "}\n"} THEN ParseError   \* line ends
  ELSE IF out[i] = "\\"
  THEN IF i + 1 <= Len(out) /\ out[i + 1] \in {"\"", "\\"}
       THEN ParseString(out, i + 2, Append(acc, out[i + 1]))
       ELSE ParseError                               \* no such escape
  ELSE ParseString(out, i + 1, Append(acc, out[i]))

RECURSIVE ParseValue(_, _)
RECURSIVE ParseList(_, _, _)
RECURSIVE ParseBody(_, _, _, _)

\* the elements of a list from piece i on, acc read so far
ParseList(out, i, acc) ==
  IF i > Len(out) THEN ParseError
  ELSE IF out[i] = "]" /\ acc = <<>> THEN Parsed(PyList(acc), i + 1)
  ELSE LET e == ParseValue(out, i)
       IN IF ~e.ok \/ e.next > Len(out) THEN ParseError
          ELSE IF out[e.next] = "]"
          THEN Parsed(PyList(Append(acc, e.v)), e.next + 1)
          ELSE IF out[e.next] = ", "
          THEN ParseList(out, e.next + 1, Append(acc, e.v))
          ELSE ParseError

\* the value that starts at piece i
ParseValue(out, i) ==
  LET j == SkipSpaces(out, i)
  IN IF j > Len(out) THEN ParseError
     ELSE CASE out[j] = "null" -> Parsed(PyNone, j + 1)
            [] out[j] = "true" -> Parsed(PyBool(TRUE), j + 1)
            [] out[j] = "false" -> Parsed(PyBool(FALSE), j + 1)
            [] out[j] \in {"0", "1", "2"} ->
                 Parsed(PyInt(CHOOSE n \in 0..2 : ToString(n) = out[j]), j + 1)
            [] out[j] = "\"" -> ParseString(out, j + 1, <<>>)
            [] out[j] = "[" -> ParseList(out, j + 1, <<>>)
            [] out[j] = "{\n" -> ParseBody(out, j + 1, <<>>, TRUE)
            [] OTHER -> ParseError

\* the "key = value" lines from piece i on, acc read so far, inside a block
\* (nested) or at the top of the file
ParseBody(out, i, acc, nested) ==
  LET j == SkipSpaces(out, i)
  IN IF j > Len(out)
     THEN IF nested THEN ParseError ELSE Parsed(PyDict(acc), j)
     ELSE IF out[j] = "\n" THEN ParseBody(out, j + 1, acc, nested)
     ELSE IF out[j] = "}\n"
     THEN IF nested THEN Parsed(PyDict(acc), j + 1) ELSE ParseError
     ELSE IF out[j] \notin Identifiers \/ j + 1 > Len(out)
             \/ out[j + 1] # " = "
             \/ \E n \in 1..Len(acc) : acc[n][1] = out[j]
     THEN ParseError
     ELSE LET e == ParseValue(out, j + 2)
          IN IF ~e.ok THEN ParseError
             ELSE IF e.v.t = "dict"      \* the block's last line has ended
             THEN ParseBody(out, e.next, Append(acc, <<out[j], e.v>>), nested)
             ELSE IF e.next <= Len(out) /\ out[e.next] = "\n"
             THEN ParseBody(out, e.next + 1, Append(acc, <<out[j], e.v>>),
                            nested)
             ELSE ParseError

\* the mapping a file holds
Parse(out) == ParseBody(out, 1, <<>>, FALSE)

RECURSIVE IsConfiguration(_)
\* a mapping whose values are scalars, lists of scalars and such mappings
IsConfiguration(x) ==
  /\ x.t = "dict"
  /\ \A n \in 1..Len(x.d) :
       LET v == x.d[n][2]
       IN \/ v.t \in {"NoneType", "bool", "int", "str"}
          \/ v.t = "list" /\ \A i \in 1..Len(v.l) :
               v.l[i].t \in {"NoneType", "bool", "int", "str"}
          \/ IsConfiguration(v)

\* C20: the text written for a mapping of null, boolean, integer and string
\* scalars, lists of scalars and nested mappings, strings with double quotes
\* or backslashes included, reads back as the same mapping with its keys in
\* the same order
C20_RoundTrip ==
  (hcl_pc = "done" /\ IsConfiguration(content)) =>
    (Parse(f).ok /\ Parse(f).v = content)

ExampleLine ==
  <<"source", " = ", "\"", "../", "modules", "/", "network", "\"">>

\* C21: change_module_source rewrites the line  source = "../modules/network"
\* to  source = "<target repository>//modules/network" , followed by
\* ?ref=<tag> inside the quotes when a tag is given and by nothing when none is
C21_ModuleSourceRewritten ==
  [][change_module_source_call =>
       \A n \in 1..Len(tf_file) :
         tf_file[n] = ExampleLine =>
           tf_file'[n] =
             <<"source", " = ", "\"">> \o target_repository
             \o <<"//", "modules", "/", "network">>
             \o (IF Truthy(tag) THEN <<"?ref=", tag>> ELSE <<>>)
             \o <<"\"">>]_vars

\* C23: a copy_with_patterns that returns has copied a top-level entry of the
\* source directory exactly if its name matches one of the patterns, a
\* matching directory with all that is below it, and has left the working
\* directory as it was
C23_CopiesExactlyTheMatching ==
  [][(copy_with_patterns_call /\ stage_pc' = "copied") =>
       LET source == tree[copy_args.source_dir]
           before == tree[copy_args.target_dir]
           after == tree'[copy_args.target_dir]
           Matches(name) ==
             \E i \in 1..Len(copy_args.patterns) :
               fnmatch(name, copy_args.patterns[i])
       IN /\ \A e \in source :
               Len(e.path) = 1 =>
                 /\ (e \in after \ before) <=> Matches(e.path[1])
                 /\ (e.isdir /\ Matches(e.path[1])) =>
                      \A x \in source : Head(x.path) = e.path[1] => x \in after
          /\ cwd' = cwd]_vars

\* the module a line of a stage's file refers to by a relative path, or None
ReferredModule(line) ==
  IF \E l \in 1..4, m \in {"project", "iam"} : line = ModuleLine(l, m)
  THEN line[Len(line) - 1]
  ELSE None

\* the remote reference the operator's choices ask for: the upstream
\* repository at the chosen tag, or the private modules repository over the
\* chosen transport
RemoteReference(name, git) ==
  IF retval["use_upstream"] = True
  THEN <<"git::",
         "https://github.com/GoogleCloudPlatform/cloud-foundation-fabric.git",
         "//", "modules", "/", name, "?ref=", retval["upstream_tag"]>>
  ELSE IF git = "ssh"
  THEN <<"git::", "git@git.example.com:fast/", "modules", ".git",
         "//", "modules", "/", name>>
  ELSE <<"git::", "https://git.example.com/fast/", "modules", ".git",
         "//", "modules", "/", name>>

Touched == {p \in DOMAIN files' : p \notin DOMAIN files \/ files'[p] # files[p]}

\* C24: whatever text the operator confirms in the final_config prompt, the
\* generated files are written to stages/00-bootstrap/terraform.tfvars and
\* stages/00-cicd/terraform.tfvars and nowhere else, the output paths kept in
\* the Configuration are these paths, and a file that holds anything begins
\* with the marker comment
C24_FixedPathsAndMarker ==
  [][files' # files =>
       /\ Touched \subseteq
            (IF wizard = "core"
             THEN {"stages/00-bootstrap/terraform.tfvars"}
             ELSE {"stages/00-bootstrap/terraform.tfvars",
                   "stages/00-cicd/terraform.tfvars"})
       /\ config'["bootstrap_output_path"] =
            "stages/00-bootstrap/terraform.tfvars"
       /\ wizard # "core" =>
            config'["cicd_output_path"] = "stages/00-cicd/terraform.tfvars"
       /\ \A p \in DOMAIN files' :
            files'[p] # <<>> =>
              (files'[p][1] = "# Written by configure.py\n\n"
               /\ Len(files'[p]) > 1)]_vars
C24_Witness ==
  /\ wizard = "gitlab"
  /\ pc = "returned"
  /\ button = "Ok"
  /\ DOMAIN files = {"stages/00-bootstrap/terraform.tfvars",
                     "stages/00-cicd/terraform.tfvars"}
  /\ files["stages/00-cicd/terraform.tfvars"] =
       <<"# Written by configure.py\n\n", "terraform fmt">>
  /\ config["cicd_output_path"] = "stages/00-cicd/terraform.tfvars"

\* the repository names the operator left the repositories step with
EnteredNames == config'[RepositoriesKey[wizard]]
Owner ==
  config'[IF wizard = "gitlab" THEN "gitlab_group" ELSE "github_organization"]

\* C25: whatever repository names the operator entered, customised or left
\* empty, generating the CI/CD configuration succeeds, a stage with a
\* non-empty name gets the entry <group or organization>/<name> with the
\* stage's description, and a stage with an empty name gets no entry
C25_AnyNamesGenerate ==
  [][(wizard \in {"gitlab", "github"} /\ step = "final_config"
      /\ pc = "dialog" /\ "stages/00-cicd/terraform.tfvars" \in Touched) =>
       /\ files'["stages/00-cicd/terraform.tfvars"] # <<>>
       /\ \A k \in DOMAIN EnteredNames :
            IF EnteredNames[k] = ""
            THEN k \notin DOMAIN cicd_repositories(config')
            ELSE /\ k \in DOMAIN cicd_repositories(config')
                 /\ cicd_repositories(config')[k].name =
                      <<Owner, "/", EnteredNames[k]>>
                 /\ cicd_repositories(config')[k].description =
                      repository_descriptions[k]]_vars

\* C26: what a wizard instance writes to its Configuration is never seen
\* through the dictionary of a class, which is what an instance that was not
\* seeded from it starts from: every class-level dictionary keeps the values
\* its class statement gave it
C26_ConfigurationsPerInstance ==
  \A c \in DOMAIN class_config : class_config[c] = ClassConfigs[c]


\* C27: a process that found git or terraform missing constructs no wizard
\* and runs no step: it is at the module's checks, or it has printed the
\* message of a missing tool and exited with a status other than 0
C27_MissingToolExitsFirst ==
  process.which # Tools =>
    /\ pc \in {"start", "failed"}
    /\ dialog_index = 0 /\ step = "" /\ dlg = NoDialog /\ retval = None
    /\ pc = "failed" =>
         /\ Len(process.status) = 1 /\ process.status[1] # 0
         /\ process.stdout \in {<<NoGit>>, <<NoTerraform>>}
C27_Witness ==
  /\ pc = "failed"
  /\ process.which = {"git"}
  /\ process.stdout = <<NoTerraform>>
  /\ process.status = <<1>>


\* C28: an exception raised in a step handler, an error of a cloud or VCS
\* API call among them, leaves run_wizard and main: the cursor and the
\* wizard stay as they were, the process ends with status 1, "All done!" is
\* not printed, and nothing runs afterwards
C28_ErrorsPropagate ==
  [][/\ (process'.raised /\ ~process.raised) =>
          /\ pc' = "raised"
          /\ dialog_index' = dialog_index /\ wizard' = wizard
          /\ retval' = retval
          /\ process'.status = <<1>>
          /\ \A i \in DOMAIN process'.stdout : process'.stdout[i] # "All done!"
     /\ pc # "raised"]_vars
C28_Witness ==
  /\ pc = "raised"
  /\ wizard = "core" /\ step = "organization" /\ dialog_index = 1
  /\ button = "Ok"
  /\ process.raised /\ process.status = <<1>>


\* a call of run_terraform_until_ok returns to select_terraform
RunnerReturns ==
  /\ pc \in {"tf_run", "maybe_quit"} /\ dlg.kind = "terraform"
  /\ tf_pos' # tf_pos \/ pc' \in {"loop", "returned", "raised"}

\* C29: run_terraform_until_ok returns True only when the last subprocess it
\* spawned has exited with 0 and the operator pressed Ok, labelled "Ok",
\* after that; the first button ends the dialog only when its label is not
\* "Wait...", and the label leaves "Wait..." only when both streams are at
\* end-of-file and the exit status is the one collected
C29_TrueOnlyAfterSuccess ==
  [][/\ (RunnerReturns /\ tf'.returned = True) =>
          /\ tf.proc = "exited" /\ tf.rc = 0 /\ tf.return_code = 0
          /\ tf.result = True /\ tf.ok_text = "Ok"
     /\ (tf'.result = True /\ tf'.app = "exited" /\ tf.app = "running") =>
          /\ tf.ok_text # "Wait..."
          /\ tf.task = "done" /\ tf.proc = "exited"
     /\ (tf.ok_text = "Wait..." /\ tf'.ok_text # "Wait...") =>
          /\ tf.out_eof /\ tf.err_eof /\ tf.proc = "exited"
          /\ tf'.return_code = tf.rc
          /\ tf'.ok_text = IF tf.rc = 0 THEN "Ok" ELSE "Retry"]_vars
C29_Witness ==
  /\ pc = "tf_run"
  /\ tf_pos = 2
  /\ tf.returned = True
  /\ tf.proc = "running" /\ tf.ok_text = "Wait..."


\* the steps whose handler can return without showing a prompt
MayNotPrompt ==
  {"billing_account_org", "prerequisites", "gitlab_url", "gitlab_token",
   "github_token"}

\* C30: a step that is entered by a retreat, has a prompting step before
\* it and completes without showing a prompt passes the retreat on, so that
\* Previous, chosen repeatedly, brings the operator to the prompt of every
\* earlier prompting step
C30_BackwardNeverTrapped ==
  [][(/\ pc = "loop" /\ dialog_index > 0 /\ InRange(dialog_index)
      /\ \E j \in 0..(dialog_index - 1) : StepAt(j) \notin MayNotPrompt
      /\ go_to_next # None /\ ~Truthy(go_to_next)
      /\ pc' \in {"loop", "returned"})
       => dialog_index' < dialog_index]_vars


\* C31: no sequence of go-back signals makes the driver fail with an index
\* error: the driver never fetches a step at a cursor outside its list
C31_NoIndexError ==
  pc \in {"loop", "raised"} => InRange(dialog_index)


\* the policy of the organization the Configuration names
OrgPolicy == iam_policy[config["organization"]]
\* the user is a member of a binding of the role
Holds(policy, r) ==
  \E i \in DOMAIN policy : policy[i].role = r /\ InList(User, policy[i].members)

\* C32: the IAM policy is written only by the Ok of the prerequisites
\* confirmation; a Previous there writes nothing and signals go-back; and
\* when the user holds the four roles the step shows no dialog, writes
\* nothing and advances
C32_PolicyWrittenOnConfirm ==
  [][/\ iam_policy' # iam_policy =>
          /\ pc = "dialog" /\ step = "prerequisites" /\ dlg.kind = "confirm"
          /\ button' = "Ok"
     /\ (pc = "dialog" /\ step = "prerequisites" /\ button' = "Previous"
           /\ HandlerReturned) =>
          /\ iam_policy' = iam_policy
          /\ go_to_next' = False
          /\ dialog_index' = dialog_index - 1
     /\ (/\ pc = "loop" /\ InRange(dialog_index)
         /\ StepAt(dialog_index) = "prerequisites"
         /\ config["organization"] # None
         /\ pc' # "raised") =>
          IF \A r \in RequiredRoles : Holds(OrgPolicy, r)
          THEN /\ pc' \in {"loop", "returned"}
               /\ iam_policy' = iam_policy
               /\ dialog_index' = dialog_index + 1
          ELSE /\ pc' = "dialog" /\ dlg'.kind = "confirm"
               /\ iam_policy' = iam_policy]_vars


\* the roles with a binding of the written policy that has the user and is
\* new, or did not have the user in the policy read
UserAdded(old, new) ==
  {r \in RequiredRoles :
     \E i \in DOMAIN new :
       /\ new[i].role = r /\ InList(User, new[i].members)
       /\ i \in DOMAIN old => ~InList(User, old[i].members)}

\* C33: the policy the prerequisites step writes keeps every binding and
\* every member of the policy read, has the user in a binding of each of the
\* four required roles, and the roles listed to the operator are those for
\* which the user was added
C33_WrittenPolicyIsSuperset ==
  [][(pc = "dialog" /\ step = "prerequisites" /\ button' = "Ok"
        /\ HandlerReturned) =>
       LET old == OrgPolicy
           new == iam_policy'[config["organization"]]
       IN /\ Len(new) >= Len(old)
          /\ \A i \in DOMAIN old :
               /\ new[i].role = old[i].role
               /\ \A m \in DOMAIN old[i].members :
                    InList(old[i].members[m], new[i].members)
          /\ \A r \in RequiredRoles : Holds(new, r)
          /\ dlg.values = UserAdded(old, new)
          /\ \A o \in Organizations \ {config["organization"]} :
               iam_policy'[o] = iam_policy[o]]_vars
\* the policy with two roles bound to others was read, and written with the
\* user added to three bindings and two new bindings
C33_Witness ==
  /\ wizard = "core" /\ step = "prerequisites" /\ button = "Ok"
  /\ pc = "loop"
  /\ Len(OrgPolicy) = 6
  /\ OrgPolicy[1] = Binding("roles/viewer", <<Other>>)
  /\ OrgPolicy[2] = Binding("roles/billing.admin", <<Other, User>>)
  /\ OrgPolicy[3] = Binding("roles/logging.admin", <<User, Other>>)
  /\ OrgPolicy[4] = Binding("roles/logging.admin", <<Other, User>>)


\* C34: a Configuration the core wizard returns with billing_account_in_org
\* true has billing_account_org equal to organization, and the domain and
\* the directory customer id of that organization
C34_OrganizationConsistent ==
  (pc = "returned" /\ wizard = "core"
     /\ Truthy(retval["billing_account_in_org"])) =>
    /\ retval["organization"] \in Organizations
    /\ retval["billing_account_org"] = retval["organization"]
    /\ retval["organization"] = "organizations/1" =>
         retval["domain"] = "example.com"
           /\ retval["directory_customer_id"] = "C01"
    /\ retval["organization"] = "organizations/2" =>
         retval["domain"] = "acme.org"
           /\ retval["directory_customer_id"] = "C02"
\* the operator had the roles written for the first organization, came back
\* to the organization step and selected the second one
C34_Witness ==
  /\ pc = "returned" /\ wizard = "core"
  /\ retval["billing_account_in_org"] = True
  /\ retval["organization"] = "organizations/2"
  /\ retval["billing_account_org"] = "organizations/2"
  /\ retval["domain"] = "acme.org"
  /\ iam_policy["organizations/1"] # iam_policy["organizations/2"]


\* the identity provider of the backend the Configuration names
Provider(cfg) == IF HasGitlab(cfg["cicd"]) THEN "gitlab" ELSE "github"

\* C35: when the final_config step of the GitLab or GitHub wizard hands a
\* bootstrap mapping to print_hcl, it has handed the CI/CD mapping of the
\* same backend to print_hcl before, and the bootstrap mapping holds
\* cicd_repositories and federated_identity_providers of that backend; the
\* step advances only when both files are written, and a Previous writes
\* neither file
C35_CicdBeforeBootstrap ==
  [][(wizard \in {"gitlab", "github"} /\ pc = "dialog"
        /\ step = "final_config") =>
       /\ (\/ HandlerReturned /\ Truthy(go_to_next')
           \/ (bootstrap_output_path \in DOMAIN printed'
                 /\ \/ bootstrap_output_path \notin DOMAIN printed
                    \/ printed[bootstrap_output_path] #
                         printed'[bootstrap_output_path])) =>
            /\ bootstrap_output_path \in DOMAIN printed'
            /\ cicd_output_path \in DOMAIN printed'
            /\ printed'[cicd_output_path] = cicd_config(config')
            /\ printed'[cicd_output_path].backend = Provider(config)
            /\ DOMAIN printed'[bootstrap_output_path] =
                 DOMAIN bootstrap_config(FastConfigurator_config)
                   \cup {"cicd_repositories", "federated_identity_providers"}
            /\ printed'[bootstrap_output_path]["cicd_repositories"] =
                 Provider(config)
            /\ printed'[bootstrap_output_path]["federated_identity_providers"]
                 = Provider(config)
            /\ files'[cicd_output_path] = Formatted
            /\ files'[bootstrap_output_path] \in {Written, Formatted}
       /\ button' = "Previous" =>
            /\ files' = files /\ printed' = printed
            /\ HandlerReturned => ~Truthy(go_to_next')]_vars
\* the GitHub wizard, started with no file written, has written both
C35_Witness ==
  /\ wizard = "github" /\ pc = "returned"
  /\ bootstrap_output_path \in DOMAIN printed
  /\ printed[bootstrap_output_path]["federated_identity_providers"] = "github"
  /\ printed[cicd_output_path].backend = "github"
  /\ files[bootstrap_output_path] = Formatted


-----------------------------------------------------------------------------
\* the commands of a log of run_git calls, in the order they were run
Cmds(g) == [i \in DOMAIN g |-> g[i].cmd]

\* the place of a command in the order init, remote add, fetch, add, commit,
\* rebase, push
Place(cmd) == CHOOSE n \in DOMAIN GitCommands : GitCommands[n] = cmd

Ran(g, cmd) == \E i \in DOMAIN g : g[i].cmd = cmd

Succeeded(g, cmd) == \E i \in DOMAIN g : g[i].cmd = cmd /\ g[i].ok

\* C36: for each repository the git commands run in the order init, remote
\* add, fetch, add, commit, optional rebase, push, none of them left out but
\* the rebase; the rebase runs if and only if the fetch succeeded; a failed
\* fetch is followed by the next command; a failure of any other command is
\* the last command run and raises an error; and push runs only after a
\* commit that succeeded.
C36_GitCommandOrder ==
  [][staged' # staged =>
       \A r \in DOMAIN staged' :
         LET g == staged'[r].git
         IN /\ \A i \in DOMAIN g :
                 /\ i = 1 => g[i].cmd = "init"
                 /\ i > 1 =>
                      \/ Place(g[i].cmd) = Place(g[i - 1].cmd) + 1
                      \/ g[i - 1].cmd = "commit" /\ g[i].cmd = "push"
                 /\ g[i].cmd = "rebase" => Succeeded(g, "fetch")
                 /\ g[i].cmd = "push" =>
                      /\ Succeeded(g, "commit")
                      /\ Ran(g, "rebase") <=> Succeeded(g, "fetch")
                 /\ g[i].cmd = "fetch" => i < Len(g)
                 /\ ~g[i].ok /\ g[i].cmd # "fetch" =>
                      i = Len(g) /\ pc' = "raised"]_vars

\* every repository was pushed, one of them after a fetch that failed and
\* without a rebase, another after a fetch that succeeded and a rebase
C36_Witness ==
  /\ pc = "returned"
  /\ DOMAIN staged = {repositories[i] : i \in 1..Len(repositories)}
  /\ Cmds(staged["resman"].git) =
       <<"init", "remote add", "fetch", "add", "commit", "push">>
  /\ ~Succeeded(staged["resman"].git, "fetch")
  /\ Cmds(staged["cicd"].git) = GitCommands
  /\ \A i \in DOMAIN staged["cicd"].git : staged["cicd"].git[i].ok


\* C37: in the repository-push step the answer "no" leaves every temp_dir
\* and every git command undone; with use_upstream true no git command is
\* run for the modules repository; with use_upstream false a stage repository
\* with rewritten sources has a git command run only when the push of the
\* modules repository, the first of the loop, has succeeded.
C37_ModulesFirstOrNotAtAll ==
  [][pc = "dialog" /\ step = "git" /\ pc' \in {"returned", "loop", "raised"}
       => /\ config'["git"] = "no" => staged' = staged
          /\ "modules" \in DOMAIN staged' /\ Truthy(config'["use_upstream"])
               => staged'["modules"].git = <<>>
          /\ ~Truthy(config'["use_upstream"]) =>
               \A r \in DOMAIN staged' \ {"modules"} :
                 staged'[r].git # <<>> =>
                   /\ repositories[1] = "modules"
                   /\ Succeeded(staged'["modules"].git, "push")]_vars

\* with use_upstream true every stage repository was pushed and no git
\* command was run for the modules
C37_Witness ==
  /\ pc = "returned"
  /\ "use_upstream" \in DOMAIN config
  /\ Truthy(config["use_upstream"])
  /\ DOMAIN staged = {repositories[i] : i \in 1..Len(repositories)}
  /\ staged["modules"].git = <<>>
  /\ \A r \in DOMAIN staged \ {"modules"} : Succeeded(staged[r].git, "push")

\* with use_upstream false the modules and every stage repository were pushed
C37_WitnessPrivate ==
  /\ pc = "returned"
  /\ "use_upstream" \in DOMAIN config
  /\ config["use_upstream"] = False
  /\ DOMAIN staged = {repositories[i] : i \in 1..Len(repositories)}
  /\ \A r \in DOMAIN staged : Succeeded(staged[r].git, "push")


\* the path of a file of the given name inside the temp_dir of a repository
InTempDir(cfg, repository, name) ==
  mkdtemp(repository_stages(repository, cfg["networking_model"]))
    \o <<"/">> \o name

\* C38: when a stage repository is staged, the tfvars file of every stage
\* listed for it in repository_dependencies that exists under the outputs,
\* its providers file and the globals tfvars file when they exist, are
\* copied into its temp_dir.
C38_DependenciesStaged ==
  [][staged' # staged =>
       \A r \in DOMAIN staged' \ {"modules"} :
         LET stage == repository_stages(r, config'["networking_model"])
             dependencies == repository_dependencies(r)
         IN /\ \A i \in DOMAIN dependencies :
                 exists(dependency_path(dependencies[i])) =>
                   InTempDir(config', r,
                             basename(dependency_path(dependencies[i])))
                     \in staged'[r].copied
            /\ exists(provider_path(stage)) =>
                 InTempDir(config', r, basename(provider_path(stage)))
                   \in staged'[r].copied
            /\ exists(globals_path) =>
                 InTempDir(config', r, basename(globals_path))
                   \in staged'[r].copied]_vars

=============================================================================
